---- MODULE Spec2Model ----
(***************************************************************************)
(* Menu Guard: the config function, the AI gateway function (and its older *)
(* four-handler variant and the placeholder analyze route), the client     *)
(* data-access service (with its older variant, sign-up, login and the      *)
(* upgrade), the backend client module, the service worker, the client's   *)
(* analysis handler, its chat, its logout, the places service of the       *)
(* client and the history modal.                                           *)
(*                                                                         *)
(* JavaScript values are tagged records: Undef, Null, Str(<<chars>>),     *)
(* Atom("word"), Num(n).  A string the code trims or tests for emptiness  *)
(* is a sequence of characters, so that trim and truthiness are computed. *)
(***************************************************************************)
EXTENDS Integers, Sequences, FiniteSets, TLC

\* ---------------------------------------------------------------- bounds
MaxStrLen == 2
MaxHistory == 3
MaxResults == 13
MaxRows == 2
MaxWrites == 1
MaxPending == 1
MaxTurns == 3

\* ------------------------------------------------------------- variables
VARIABLES
    cfgEnv,      \* config function: process.env of the three published keys
    cfgResp,     \* config function: the last response (status, body)
    gwKey,       \* gateway: process.env.GOOGLE_MAPS_API_KEY
    gwFn,        \* gateway: which function served the last request
    gwReq,       \* gateway: the last request
    gwUp,        \* gateway: how the upstream APIs behaved during it
    gwResp,      \* gateway: the responses produced for it (a sequence)
    gwAiCalls,   \* gateway: calls made to the generative-AI API during it
    gwFetches,   \* gateway: fetches made to the places API during it
    gwRan,       \* gateway: the handlers the dispatcher ran for it
    dbProfiles,  \* database: the rows of table profiles, in insertion order
    dbHistory,   \* database: the rows of table analysis_history, in insertion order
    svcAuth,     \* service: the authenticated identity {id, email}
    svcPc,       \* service: where each caller's getUserProfile call stands
    svcProfile,  \* service: the profile row a call has selected
    svcRet,      \* service: what each caller's last call returned or threw
    svcRaw,      \* service: the stored rows behind the history a caller holds
    svcNet,      \* service: whether a request has failed in transport
    currentUser,                \* App: the signed-in user, or null
    guestAllergies,             \* App: the allergy text of a guest
    menuText,                   \* App: the menu text field
    menuImage,                  \* App: the chosen image file, or null
    menuUrl,                    \* App: the menu URL field
    analysisResults,            \* App: the results shown, or null
    isLoadingAnalysis,          \* App: the loading flag
    error,                      \* App: the error banner, or null
    analysisSummary,            \* App: the summary shown, or null
    menuContextForSuggestions,  \* App: the {text, url} kept for suggestions
    conversationHistory,        \* App: the chat, or null
    autoAnalysisTrigger,        \* App: 0, or the time an auto-analysis was asked for
    isScannerOpen,              \* App: whether the QR scanner is open
    effectPending,              \* App: the auto-analysis effect is due (its deps changed)
    runs,                       \* App: the handleAnalyze calls that are awaiting
    lastCall,                   \* App: how the call of handleAnalyze in the last step ended
    isChatLoading,              \* App: the chat's loading flag
    chats,                      \* App: the continueChat requests that are awaiting
    logoutPending,              \* App: handleLogout awaits authService.logout()
    guestStore,                 \* localStorage: the guest allergy item, or null
    restaurants,                \* App: the restaurants found nearby, or null
    isFindingRestaurants,       \* App: handleFindNearby awaits position and search
    locationError,              \* App: the location error shown, or null
    mapsUp,                     \* maps API: what it answered to the last search
    deletingId,                 \* history modal: the id being deleted, or null
    modalError,                 \* history modal: its error text, or null
    deleteCalls,                \* history modal: the handleDelete calls that are awaiting
    authAccounts,      \* auth service: the identities that have signed up
    supabaseInstance,  \* backend client module: the client instance, or null
    clientRet,         \* backend client module: how the last call of it ended
    swCache,    \* service worker: the cache, request URL -> stored response
    swServer,   \* network: the version of the content each URL's server holds
    swPending,  \* service worker: fetch events waiting for the network
    swLast      \* service worker: how the last fetch event was answered

cfgVars == <<cfgEnv, cfgResp>>
gwVars == <<gwKey, gwFn, gwReq, gwUp, gwResp, gwAiCalls, gwFetches, gwRan>>
dbVars == <<dbProfiles, dbHistory>>
svcVars == <<svcAuth, svcPc, svcProfile, svcRet, svcRaw, svcNet>>
appVars ==
    <<currentUser, guestAllergies, menuText, menuImage, menuUrl, analysisResults,
      isLoadingAnalysis, error, analysisSummary, menuContextForSuggestions,
      conversationHistory, autoAnalysisTrigger, isScannerOpen, effectPending, runs,
      lastCall, isChatLoading, chats, logoutPending, guestStore, restaurants,
      isFindingRestaurants, locationError, mapsUp, deletingId, modalError,
      deleteCalls>>
\* the client's state outside the analysis: chat, logout, restaurants, history modal
sessVars ==
    <<isChatLoading, chats, logoutPending, guestStore, restaurants,
      isFindingRestaurants, locationError, mapsUp, deletingId, modalError,
      deleteCalls>>
accVars == <<authAccounts, supabaseInstance, clientRet>>
swVars == <<swCache, swServer, swPending, swLast>>
vars == <<cfgVars, accVars, swVars, gwVars, dbVars, svcVars, appVars>>

\* ------------------------------------------------------ JavaScript values
Undef == [k |-> "undefined"]
Null == [k |-> "null"]
Str(s) == [k |-> "string", s |-> s]
Atom(a) == [k |-> "string", a |-> a]
Num(n) == [k |-> "number", n |-> n]

Chars == {" ", "a"}

RECURSIVE SeqsUpTo(_, _)
SeqsUpTo(S, n) ==
    IF n = 0 THEN {<<>>}
    ELSE LET shorter == SeqsUpTo(S, n - 1)
         IN shorter \cup {Append(s, c) : s \in shorter, c \in S}

Strings == {Str(s) : s \in SeqsUpTo(Chars, MaxStrLen)}
OptStrings == {Undef} \cup Strings

RECURSIVE TrimLeft(_)
TrimLeft(s) == IF s # <<>> /\ Head(s) = " " THEN TrimLeft(Tail(s)) ELSE s

RECURSIVE TrimRight(_)
TrimRight(s) ==
    IF s # <<>> /\ s[Len(s)] = " " THEN TrimRight(SubSeq(s, 1, Len(s) - 1)) ELSE s

\* String.prototype.trim
Trim(s) == TrimRight(TrimLeft(s))

\* x?.trim(): undefined for undefined and null, the trimmed string otherwise
OptTrim(v) == IF v \in {Undef, Null} THEN Undef ELSE Str(Trim(v.s))

\* JavaScript truthiness of the values the model uses
Truthy(v) ==
    CASE v.k = "undefined" -> FALSE
      [] v.k = "null" -> FALSE
      [] v.k = "number" -> v.n # 0
      [] v.k = "boolean" -> v.b
      [] v.k = "string" -> IF "s" \in DOMAIN v THEN v.s # <<>> ELSE v.a # ""
      [] OTHER -> TRUE

Arr(v) == [k |-> "array", v |-> v]

\* obj.f, undefined when the key is absent
Get(obj, f) == IF f \in DOMAIN obj THEN obj[f] ELSE Undef

\* ============================================================ config function
EnvNames == {"GOOGLE_MAPS_API_KEY", "SUPABASE_URL", "SUPABASE_ANON_KEY"}

ConfigError ==
    "Required environment variables (Google Maps, Supabase) are not set on the server."

\* The config function forgetting to test the last variable.
ConfigHandlerTwoChecked(env) ==
    IF ~Truthy(env["GOOGLE_MAPS_API_KEY"]) \/ ~Truthy(env["SUPABASE_URL"])
    THEN [status |-> 500, body |-> [error |-> ConfigError]]
    ELSE [status |-> 200,
          body |-> [googleMapsApiKey |-> env["GOOGLE_MAPS_API_KEY"],
                    supabaseUrl |-> env["SUPABASE_URL"],
                    supabaseAnonKey |-> env["SUPABASE_ANON_KEY"]]]

ConfigHandler(env) ==
    IF \/ ~Truthy(env["GOOGLE_MAPS_API_KEY"])
       \/ ~Truthy(env["SUPABASE_URL"])
       \/ ~Truthy(env["SUPABASE_ANON_KEY"])
    THEN [status |-> 500, body |-> [error |-> ConfigError]]
    ELSE [status |-> 200,
          body |-> [googleMapsApiKey |-> env["GOOGLE_MAPS_API_KEY"],
                    supabaseUrl |-> env["SUPABASE_URL"],
                    supabaseAnonKey |-> env["SUPABASE_ANON_KEY"]]]

\* ================================================================== gateway
\* What a handler did: returned a value or threw, and the upstream calls it made.
Ret(v, ai, fetches) ==
    [threw |-> FALSE, msg |-> "", value |-> v, ai |-> ai, fetches |-> fetches]
Throw(msg, ai, fetches) ==
    [threw |-> TRUE, msg |-> msg, value |-> Undef, ai |-> ai, fetches |-> fetches]

DestructureError == "TypeError: Cannot destructure property of undefined or null"
NoMenuError == "No menu content provided for analysis."
EmptyChatError == "Chat history is empty or invalid."
NoKeyError == "Server is not configured with a Google Maps API key."
NoCoordsError == "Latitude and longitude are required."
SyntaxErrorMsg == "SyntaxError: Unexpected token in JSON"
TextUndefinedError == "TypeError: Cannot read properties of undefined (reading 'trim')"
PropertyError == "TypeError: Cannot read properties of undefined"
GenericError == "An internal server error occurred."
MethodError == "Method not allowed"
UpstreamError == "The AI service is unavailable."
FetchError == "fetch failed"

\* --- JSON text of a model response: " " is whitespace, "J" a chunk of JSON text
\* that denotes ModelResults, "[]" the literal the code substitutes for no text.
JsonChars == {" ", "J"}
Item(name, level, why, allergens) ==
    [k |-> "object", itemName |-> Atom(name), safetyLevel |-> Atom(level),
     reasoning |-> Atom(why), identifiedAllergens |-> Arr(allergens)]
PadThai == Item("Pad Thai", "unsafe", "contains peanuts", <<Atom("peanuts")>>)
Rice == Item("Rice", "safe", "no listed allergen", <<>>)
ModelResults == <<PadThai>>

\* JSON.parse: whitespace around exactly one value, a SyntaxError otherwise
ParseJson(s) ==
    LET t == Trim(s)
    IN IF t = <<"J">> THEN [ok |-> TRUE, v |-> Arr(ModelResults)]
       ELSE IF t = <<"[]">> THEN [ok |-> TRUE, v |-> Arr(<<>>)]
       ELSE [ok |-> FALSE, v |-> Undef]

\* --- handleAnalyze
ImagePayload == [k |-> "object", data |-> "base64", mimeType |-> "image/jpeg"]

\* The source chosen without looking at the URL first.
MenuContentImageFirst(data) ==
    IF Truthy(Get(data, "imagePayload"))
    THEN [source |-> "image",
          parts |-> <<[text |-> [prompt |-> "image", arg |-> Undef]],
                      [inlineData |-> [data |-> Get(data, "imagePayload").data,
                                       mimeType |-> Get(data, "imagePayload").mimeType]]>>]
    ELSE IF Truthy(OptTrim(Get(data, "menuUrl")))
    THEN [source |-> "url",
          parts |-> <<[text |-> [prompt |-> "url", arg |-> Get(data, "menuUrl")]]>>]
    ELSE IF Truthy(OptTrim(Get(data, "menuText")))
    THEN [source |-> "text",
          parts |-> <<[text |-> [prompt |-> "text", arg |-> Get(data, "menuText")]]>>]
    ELSE [source |-> "none", parts |-> <<>>]

\* The source test without the trim: a whitespace-only text counts as a menu.
MenuContentNoTrim(data) ==
    IF Truthy(Get(data, "menuUrl"))
    THEN [source |-> "url",
          parts |-> <<[text |-> [prompt |-> "url", arg |-> Get(data, "menuUrl")]]>>]
    ELSE IF Truthy(Get(data, "imagePayload"))
    THEN [source |-> "image",
          parts |-> <<[text |-> [prompt |-> "image", arg |-> Undef]],
                      [inlineData |-> [data |-> Get(data, "imagePayload").data,
                                       mimeType |-> Get(data, "imagePayload").mimeType]]>>]
    ELSE IF Truthy(Get(data, "menuText"))
    THEN [source |-> "text",
          parts |-> <<[text |-> [prompt |-> "text", arg |-> Get(data, "menuText")]]>>]
    ELSE [source |-> "none", parts |-> <<>>]

\* The if-chain that chooses the menu source and builds the parts; the prompt is
\* unshifted to the front.  source "none" is the branch that throws.
MenuContent(data) ==
    IF Truthy(OptTrim(Get(data, "menuUrl")))
    THEN [source |-> "url",
          parts |-> <<[text |-> [prompt |-> "url", arg |-> Get(data, "menuUrl")]]>>]
    ELSE IF Truthy(Get(data, "imagePayload"))
    THEN [source |-> "image",
          parts |-> <<[text |-> [prompt |-> "image", arg |-> Undef]],
                      [inlineData |-> [data |-> Get(data, "imagePayload").data,
                                       mimeType |-> Get(data, "imagePayload").mimeType]]>>]
    ELSE IF Truthy(OptTrim(Get(data, "menuText")))
    THEN [source |-> "text",
          parts |-> <<[text |-> [prompt |-> "text", arg |-> Get(data, "menuText")]]>>]
    ELSE [source |-> "none", parts |-> <<>>]

handleAnalyze(data, up) ==
    IF data \in {Undef, Null} THEN Throw(DestructureError, <<>>, <<>>)
    ELSE LET mc == MenuContent(data)
             call == [api |-> "generateContent",
                      parts |-> mc.parts,
                      allergies |-> Get(data, "allergies"),
                      preferences |-> IF Truthy(Get(data, "preferences"))
                                      THEN Get(data, "preferences") ELSE Atom("None"),
                      schema |-> "analysisResultSchema"]
         IN IF mc.source = "none" THEN Throw(NoMenuError, <<>>, <<>>)
            ELSE IF up.ai.threw THEN Throw(up.ai.msg, <<call>>, <<>>)
            ELSE IF up.ai.text = Undef THEN Throw(TextUndefinedError, <<call>>, <<>>)
            ELSE LET jsonText == Trim(up.ai.text.s)
                     parsed == ParseJson(IF jsonText # <<>> THEN jsonText ELSE <<"[]">>)
                 IN IF parsed.ok THEN Ret(parsed.v, <<call>>, <<>>)
                    ELSE Throw(SyntaxErrorMsg, <<call>>, <<>>)

\* --- handleSummarize
\* a handler that calls the model a second time when the first call fails
handleSummarizeRetrying(data, up) ==
    IF data \in {Undef, Null} THEN Throw(DestructureError, <<>>, <<>>)
    ELSE LET call == [api |-> "generateContent",
                      prompt |-> [prompt |-> "summarize",
                                  results |-> Get(data, "results"),
                                  allergies |-> Get(data, "allergies"),
                                  preferences |-> Get(data, "preferences")]]
         IN IF up.ai.threw THEN Throw(up.ai.msg, <<call, call>>, <<>>)
            ELSE Ret([summary |-> up.ai.text], <<call>>, <<>>)

handleSummarize(data, up) ==
    IF data \in {Undef, Null} THEN Throw(DestructureError, <<>>, <<>>)
    ELSE LET call == [api |-> "generateContent",
                      prompt |-> [prompt |-> "summarize",
                                  results |-> Get(data, "results"),
                                  allergies |-> Get(data, "allergies"),
                                  preferences |-> Get(data, "preferences")]]
         IN IF up.ai.threw THEN Throw(up.ai.msg, <<call>>, <<>>)
            ELSE Ret([summary |-> up.ai.text], <<call>>, <<>>)

\* --- handleAlternative
handleAlternative(data, up) ==
    IF data \in {Undef, Null} THEN Throw(DestructureError, <<>>, <<>>)
    ELSE IF Get(data, "safeItems") \in {Undef, Null} THEN Throw(PropertyError, <<>>, <<>>)
    ELSE IF Get(data, "menuContext") \in {Undef, Null} THEN Throw(PropertyError, <<>>, <<>>)
    ELSE LET ctx == Get(data, "menuContext")
             call == [api |-> "generateContent",
                      prompt |-> [prompt |-> "alternative",
                                  unsafeItemName |-> Get(data, "unsafeItemName"),
                                  menu |-> IF Truthy(Get(ctx, "url"))
                                           THEN [from |-> "url", arg |-> Get(ctx, "url")]
                                           ELSE [from |-> "text", arg |-> Get(ctx, "text")],
                                  safeItems |-> IF Len(Get(data, "safeItems").v) > 0
                                                THEN Get(data, "safeItems") ELSE Atom("")]]
         IN IF up.ai.threw THEN Throw(up.ai.msg, <<call>>, <<>>)
            ELSE Ret([alternative |-> up.ai.text], <<call>>, <<>>)

\* --- handleChat
\* history.map(msg => ({role, parts: [{text: content}]}))
GeminiHistory(h) ==
    [i \in 1..Len(h) |-> [role |-> h[i].role, parts |-> <<[text |-> h[i].content]>>]]

\* history.slice(0, -1)
SeedHistory(h) == SubSeq(h, 1, Len(h) - 1)

handleChat(data, up) ==
    IF data \in {Undef, Null} THEN Throw(DestructureError, <<>>, <<>>)
    ELSE LET history == Get(data, "history")
         IN IF history.k # "array" \/ Len(history.v) = 0
            THEN Throw(EmptyChatError, <<>>, <<>>)
            ELSE LET call == [api |-> "chat",
                              history |-> GeminiHistory(SeedHistory(history.v)),
                              message |-> Get(data, "message")]
                 IN IF up.ai.threw THEN Throw(up.ai.msg, <<call>>, <<>>)
                    ELSE Ret([reply |-> up.ai.text], <<call>>, <<>>)

\* The older gateway's handleChat: the history goes to the chat as it came.
legacyHandleChat(data, up) ==
    IF data \in {Undef, Null} THEN Throw(DestructureError, <<>>, <<>>)
    ELSE LET history == Get(data, "history")
             call == [api |-> "chat",
                      history |-> IF history.k = "array" THEN history.v ELSE history,
                      message |-> Get(data, "message")]
         IN IF up.ai.threw THEN Throw(up.ai.msg, <<call>>, <<>>)
            ELSE Ret([reply |-> up.ai.text], <<call>>, <<>>)

\* --- handlePlaces
PlacesCap == 12

Restaurant(place) ==
    [place_id |-> place.place_id, name |-> place.name,
     isOpen |-> IF Get(place, "opening_hours") \in {Undef, Null} THEN FALSE
                ELSE Get(place, "opening_hours").open_now]

\* The details response of the places API for one place, as the upstream decided.
DetailResponse(place_id, up) ==
    IF place_id \notin up.failed
    THEN [threw |-> FALSE, status |-> "OK",
          result |-> [k |-> "object", place_id |-> place_id, name |-> "restaurant",
                      opening_hours |-> Null]]
    ELSE CASE up.failKind = "throw" -> [threw |-> TRUE, status |-> "", result |-> Undef]
           [] up.failKind = "status" ->
                [threw |-> FALSE, status |-> "NOT_FOUND", result |-> Undef]
           [] OTHER -> [threw |-> FALSE, status |-> "OK", result |-> Undef]

\* getPlaceDetails: the restaurant, or null on a non-OK status, a missing result or
\* a thrown fetch (caught inside).
getPlaceDetails(place_id, up) ==
    LET r == DetailResponse(place_id, up)
    IN IF r.threw THEN Null
       ELSE IF r.status = "OK" /\ Truthy(r.result) THEN Restaurant(r.result)
       ELSE Null

\* array.filter(r => r !== null)
RECURSIVE FilterNonNull(_)
FilterNonNull(s) ==
    IF s = <<>> THEN <<>>
    ELSE IF Head(s) = Null THEN FilterNonNull(Tail(s))
    ELSE <<Head(s)>> \o FilterNonNull(Tail(s))

\* results.slice(0, 12)
SliceCap(results) ==
    SubSeq(results, 1, IF Len(results) < PlacesCap THEN Len(results) ELSE PlacesCap)

\* The checks made before any fetch: "" when they pass.
PlacesPrecheck(data, key) ==
    IF data \in {Undef, Null} THEN DestructureError
    ELSE IF ~Truthy(key) THEN NoKeyError
    ELSE IF ~Truthy(Get(data, "latitude")) \/ ~Truthy(Get(data, "longitude"))
    THEN NoCoordsError
    ELSE ""

\* Promise.all rejecting on the first failed lookup instead of the lookup
\* resolving with null.
JoinDetailsFailFast(places, up) ==
    IF \E i \in 1..Len(places) : places[i] \in up.failed
    THEN [threw |-> TRUE, v |-> <<>>]
    ELSE [threw |-> FALSE,
          v |-> [i \in 1..Len(places) |-> getPlaceDetails(places[i], up)]]

\* (await Promise.all(detailPromises)).filter(r => r !== null)
JoinDetails(places, up) ==
    [threw |-> FALSE,
     v |-> FilterNonNull([i \in 1..Len(places) |-> getPlaceDetails(places[i], up)])]

handlePlaces(data, key, up) ==
    IF PlacesPrecheck(data, key) # "" THEN Throw(PlacesPrecheck(data, key), <<>>, <<>>)
    ELSE LET search == up.search
             nearby == [url |-> "nearbysearch", arg |-> Undef]
         IN IF search.threw THEN Throw(FetchError, <<>>, <<nearby>>)
            ELSE IF search.status = "OK" /\ Truthy(search.results)
            THEN LET places == SliceCap(search.results.v)
                     joined == JoinDetails(places, up)
                     fetches == <<nearby>> \o
                         [i \in 1..Len(places) |-> [url |-> "details", arg |-> places[i]]]
                 IN IF joined.threw THEN Throw(FetchError, <<>>, fetches)
                    ELSE Ret(Arr(joined.v), <<>>, fetches)
            ELSE IF search.status = "ZERO_RESULTS" THEN Ret(Arr(<<>>), <<>>, <<nearby>>)
            ELSE Throw("Google Places API Error", <<>>, <<nearby>>)

\* --- the main handler
Handlers == {"analyze", "summarize", "alternative", "chat", "places"}

UnknownTypeError == "Unknown API request type"

RunHandler(h, data, key, up) ==
    CASE h = "analyze" -> handleAnalyze(data, up)
      [] h = "summarize" -> handleSummarize(data, up)
      [] h = "alternative" -> handleAlternative(data, up)
      [] h = "chat" -> handleChat(data, up)
      [] h = "places" -> handlePlaces(data, key, up)

Response(status, body) == [status |-> status, body |-> body]

\* What serving a request came to: the responses sent, the handlers run, the calls.
Served(resps, ran, ai, fetches) ==
    [resps |-> resps, ran |-> ran, ai |-> ai, fetches |-> fetches]

\* catch (e): 500 with e.message, or the generic text when there is none
CaughtResponse(msg) ==
    Response(500, [error |-> IF msg # "" THEN msg ELSE GenericError])

\* A catch block that answers 400 for a request it could not read.
MainHandlerBadRequest(req, key, up) ==
    IF req.method # "POST"
    THEN Served(<<Response(405, [error |-> MethodError])>>, {}, <<>>, <<>>)
    ELSE IF ~req.parses \/ req.body \in {Undef, Null}
    THEN Served(<<Response(400, [error |-> SyntaxErrorMsg])>>, {}, <<>>, <<>>)
    ELSE LET type == Get(req.body, "type")
         IN IF type.k = "string" /\ type.a \in Handlers
            THEN LET out == RunHandler(type.a, Get(req.body, "data"), key, up)
                 IN Served(<<IF out.threw THEN CaughtResponse(out.msg)
                             ELSE Response(200, out.value)>>,
                           {type.a}, out.ai, out.fetches)
            ELSE Served(<<Response(400, [error |-> UnknownTypeError])>>, {}, <<>>, <<>>)

\* A dispatcher without the method test: a GET is dispatched like a POST.
MainHandlerAnyMethod(req, key, up) ==
    IF ~req.parses THEN Served(<<CaughtResponse(SyntaxErrorMsg)>>, {}, <<>>, <<>>)
    ELSE IF req.body \in {Undef, Null}
    THEN Served(<<CaughtResponse(DestructureError)>>, {}, <<>>, <<>>)
    ELSE LET type == Get(req.body, "type")
         IN IF type.k = "string" /\ type.a \in Handlers
            THEN LET out == RunHandler(type.a, Get(req.body, "data"), key, up)
                 IN Served(<<IF out.threw THEN CaughtResponse(out.msg)
                             ELSE Response(200, out.value)>>,
                           {type.a}, out.ai, out.fetches)
            ELSE Served(<<CaughtResponse(UnknownTypeError)>>, {}, <<>>, <<>>)

\* The gateway's exported handler: the method test, then req.json(), the switch on
\* type and the single catch.
MainHandler(req, key, up) ==
    IF req.method # "POST"
    THEN Served(<<Response(405, [error |-> MethodError])>>, {}, <<>>, <<>>)
    ELSE IF ~req.parses THEN Served(<<CaughtResponse(SyntaxErrorMsg)>>, {}, <<>>, <<>>)
    ELSE IF req.body \in {Undef, Null}
    THEN Served(<<CaughtResponse(DestructureError)>>, {}, <<>>, <<>>)
    ELSE LET type == Get(req.body, "type")
         IN IF type.k = "string" /\ type.a \in Handlers
            THEN LET out == RunHandler(type.a, Get(req.body, "data"), key, up)
                 IN Served(<<IF out.threw THEN CaughtResponse(out.msg)
                             ELSE Response(200, out.value)>>,
                           {type.a}, out.ai, out.fetches)
            ELSE Served(<<CaughtResponse(UnknownTypeError)>>, {}, <<>>, <<>>)

\* --- the older gateway: four handlers, handleChat without the slice
LegacyHandlers == {"analyze", "summarize", "alternative", "chat"}

LegacyRunHandler(h, data, up) ==
    CASE h = "analyze" -> handleAnalyze(data, up)
      [] h = "summarize" -> handleSummarize(data, up)
      [] h = "alternative" -> handleAlternative(data, up)
      [] h = "chat" -> legacyHandleChat(data, up)

LegacyMainHandler(req, up) ==
    IF req.method # "POST"
    THEN Served(<<Response(405, [error |-> MethodError])>>, {}, <<>>, <<>>)
    ELSE IF ~req.parses THEN Served(<<CaughtResponse(SyntaxErrorMsg)>>, {}, <<>>, <<>>)
    ELSE IF req.body \in {Undef, Null}
    THEN Served(<<CaughtResponse(DestructureError)>>, {}, <<>>, <<>>)
    ELSE LET type == Get(req.body, "type")
         IN IF type.k = "string" /\ type.a \in LegacyHandlers
            THEN LET out == LegacyRunHandler(type.a, Get(req.body, "data"), up)
                 IN Served(<<IF out.threw THEN CaughtResponse(out.msg)
                             ELSE Response(200, out.value)>>,
                           {type.a}, out.ai, out.fetches)
            ELSE Served(<<CaughtResponse(UnknownTypeError)>>, {}, <<>>, <<>>)

\* --- the placeholder analyze route
RoutePOST(req) ==
    IF ~req.parses THEN Served(<<CaughtResponse(SyntaxErrorMsg)>>, {}, <<>>, <<>>)
    ELSE IF req.body \in {Undef, Null}
    THEN Served(<<CaughtResponse(DestructureError)>>, {}, <<>>, <<>>)
    ELSE IF ~Truthy(Get(req.body, "menuText")) \/ ~Truthy(Get(req.body, "inputType"))
    THEN Served(<<Response(400, [error |-> "Menu text and input type are required"])>>,
                {}, <<>>, <<>>)
    ELSE Served(<<Response(200, [message |-> "Analysis endpoint (placeholder)"])>>,
                {}, <<>>, <<>>)

\* ================================================== the data-access service
\* --- isAnalysisResultArray
SafetyLevel == {"safe", "caution", "unsafe"}

\* typeof v === 'object': objects, arrays and null
TypeofObject(v) == v.k \in {"object", "array", "null"}
IsString(v) == v.k = "string"
IsArray(v) == v.k = "array"
InSafetyLevel(v) == IsString(v) /\ "a" \in DOMAIN v /\ v.a \in SafetyLevel

isAnalysisResult(item) ==
    /\ TypeofObject(item)
    /\ item # Null
    /\ "itemName" \in DOMAIN item
    /\ IsString(item.itemName)
    /\ "safetyLevel" \in DOMAIN item
    /\ InSafetyLevel(item.safetyLevel)
    /\ "reasoning" \in DOMAIN item
    /\ IsString(item.reasoning)
    /\ "identifiedAllergens" \in DOMAIN item
    /\ IsArray(item.identifiedAllergens)
    /\ \A i \in 1..Len(item.identifiedAllergens.v) :
           IsString(item.identifiedAllergens.v[i])

\* the guard weakened to Array.isArray alone
isAnalysisResultArrayShallow(data) == IsArray(data)

isAnalysisResultArray(data) ==
    IF ~IsArray(data) THEN FALSE
    ELSE \A i \in 1..Len(data.v) : isAnalysisResult(data.v[i])

\* --- the two tables, as the hosted database answers
DEFAULT_ALLERGIES == Str(<<"Peanuts,", " ", "Shellfish,", " ", "Gluten">>)
DEFAULT_ANALYSIS_LIMIT == 5
Bool(b) == [k |-> "boolean", b |-> b]

NotFound == "PGRST116"
Duplicate == "23505"
Transport == "FetchError"
DbOk(data) == [error |-> "", data |-> data]
DbError(code) == [error |-> code, data |-> Null]

RowsOf(rows, f, v) == SelectSeq(rows, LAMBDA r : r[f] = v)

\* .select('*').eq('id', id).single(): the row, or PGRST116 unless exactly one
SelectSingle(rows, id) ==
    LET found == RowsOf(rows, "id", id)
    IN IF Len(found) = 1 THEN DbOk(found[1]) ELSE DbError(NotFound)

\* profiles.id is the table's key: a second row for an id is rejected
InsertProfile(rows, row) ==
    IF RowsOf(rows, "id", row.id) # <<>> THEN DbError(Duplicate)
    ELSE DbOk(row)

\* created_at of a row: the calendar month and the instant within it
Stamp(y, m, n) == [y |-> y, m |-> m, n |-> n]
Later(a, b) ==
    \/ a.y > b.y
    \/ a.y = b.y /\ a.m > b.m
    \/ a.y = b.y /\ a.m = b.m /\ a.n > b.n

RECURSIVE InsertDesc(_, _)
InsertDesc(sorted, r) ==
    IF sorted = <<>> THEN <<r>>
    ELSE IF Later(r.created_at, Head(sorted).created_at) THEN <<r>> \o sorted
    ELSE <<Head(sorted)>> \o InsertDesc(Tail(sorted), r)

RECURSIVE OrderDesc(_)
OrderDesc(rows) ==
    IF rows = <<>> THEN <<>>
    ELSE InsertDesc(OrderDesc(SubSeq(rows, 1, Len(rows) - 1)), rows[Len(rows)])

\* .select('*').eq('user_id', id).order('created_at', {ascending: false})
SelectHistory(rows, id) == DbOk(Arr(OrderDesc(RowsOf(rows, "user_id", id))))

Today == [y |-> 2025, m |-> 0]
NextId(rows) == Len(rows) + 1
HistoryRow(rows, user_id, result) ==
    [id |-> NextId(rows), user_id |-> user_id, result |-> result,
     created_at |-> Stamp(Today.y, Today.m, NextId(rows))]

\* --- getUserProfile
DataErrorItem(why) == Item("Data Error", "unsafe", why, <<>>)
LoadErrorReason ==
    "The result from the database was in an invalid format and could not be displayed."
SaveErrorReason == "Could not read analysis result after saving."
CreateProfileError == "Could not create your profile. Please contact support."
RetrieveProfileError == "Could not retrieve user profile."

\* user.email?.split('@')[0] || 'New User'
Username(email) ==
    IF email \in {Undef, Null} \/ email.local = "" THEN Atom("New User")
    ELSE Atom(email.local)

\* user.email || null
EmailOrNull(email) ==
    IF email \in {Undef, Null} \/ (email.local = "" /\ email.domain = "") THEN Null
    ELSE email

newProfileData(user) ==
    [id |-> user.id, username |-> Username(user.email),
     allergies |-> DEFAULT_ALLERGIES, preferences |-> Str(<<>>),
     is_pro |-> Bool(FALSE), max_analyses_per_month |-> Num(DEFAULT_ANALYSIS_LIMIT)]

User(profile, user, analysisHistory) ==
    [id |-> profile.id, email |-> EmailOrNull(user.email), is_pro |-> profile.is_pro,
     username |-> profile.username, allergies |-> profile.allergies,
     preferences |-> profile.preferences,
     max_analyses_per_month |-> profile.max_analyses_per_month,
     analysisHistory |-> analysisHistory]

\* --- getUserProfile of the older service (authService.ts)
\* the profile it inserts names no quota
legacyNewProfileData(user) ==
    [id |-> user.id, username |-> Username(user.email),
     allergies |-> DEFAULT_ALLERGIES, preferences |-> Str(<<>>),
     is_pro |-> Bool(FALSE)]

\* the row the table stores for an insert: a column left out takes its default
StoredProfile(data, quotaDefault) ==
    [f \in DOMAIN data \cup {"max_analyses_per_month"} |->
        IF f \in DOMAIN data THEN data[f] ELSE quotaDefault]

\* {...profile, email: user.email!, analysisHistory}
legacyUser(profile, user, analysisHistory) ==
    [f \in DOMAIN profile \cup {"email", "analysisHistory"} |->
        CASE f = "email" -> user.email
          [] f = "analysisHistory" -> analysisHistory
          [] OTHER -> profile[f]]

\* .select('*').eq('user_id', id), in no asked order: the rows as stored
legacySelectHistory(rows, id) == DbOk(Arr(RowsOf(rows, "user_id", id)))

\* --- upgradeToPro
UpgradeError == "Failed to update your account to Pro status."
NotAuthenticatedError == "User not authenticated for upgrade."

\* an update that sets the flag and leaves the quota as it is
upgradedQuotaKept(row) == [row EXCEPT !.is_pro = Bool(TRUE)]
\* .update({ is_pro: true, max_analyses_per_month: null }) of one row
upgraded(row) == [row EXCEPT !.is_pro = Bool(TRUE), !.max_analyses_per_month = Null]

\* .update(...).eq('id', id): every row of the id is changed; no row is no error
UpdateProfiles(rows, id) ==
    [k \in 1..Len(rows) |-> IF rows[k].id = id THEN upgraded(rows[k]) ELSE rows[k]]

\* the error of the profile select that sends the call to the healing branch
ProfileMissingNever(res) == FALSE
ProfileMissing(res) == res.error # "" /\ res.error = NotFound

DecodeEntry(dbEntry) ==
    IF isAnalysisResultArray(dbEntry.result) THEN dbEntry
    ELSE [dbEntry EXCEPT !.result = Arr(<<DataErrorItem(LoadErrorReason)>>)]

\* (history || []).map(...)
DecodeHistory(res) ==
    LET history == IF res.data = Null THEN <<>> ELSE res.data.v
    IN [i \in 1..Len(history) |-> DecodeEntry(history[i])]

\* --- addAnalysisToHistory: the entry and the user it returns
newHistoryEntry(newHistoryDbEntry) ==
    IF isAnalysisResultArray(newHistoryDbEntry.result) THEN newHistoryDbEntry
    ELSE [newHistoryDbEntry EXCEPT !.result = Arr(<<DataErrorItem(SaveErrorReason)>>)]

WithNewEntry(user, entry) ==
    [user EXCEPT !.analysisHistory =
        <<entry>> \o SelectSeq(user.analysisHistory, LAMBDA h : h.id # entry.id)]

\* ------------------------------------------------- the backend client module
ClientMissingError == "Supabase URL or Key is missing for initialization."
ClientUninitError == "Supabase client has not been initialized. Call initSupabase first."
createClient(url, anonKey) == [k |-> "object", url |-> url, anonKey |-> anonKey]

\* an initialisation that makes a new client on every call
initSupabaseAnew(instance, url, anonKey) ==
    IF ~Truthy(url) \/ ~Truthy(anonKey)
    THEN [threw |-> TRUE, msg |-> ClientMissingError, instance |-> instance]
    ELSE [threw |-> FALSE, msg |-> "", instance |-> createClient(url, anonKey)]
\* initSupabase: what it throws and the instance the module holds after it
initSupabase(instance, url, anonKey) ==
    IF ~Truthy(url) \/ ~Truthy(anonKey)
    THEN [threw |-> TRUE, msg |-> ClientMissingError, instance |-> instance]
    ELSE [threw |-> FALSE, msg |-> "",
          instance |-> IF ~Truthy(instance) THEN createClient(url, anonKey)
                       ELSE instance]

getSupabaseClient(instance) ==
    IF ~Truthy(instance) THEN [threw |-> TRUE, msg |-> ClientUninitError, value |-> Null]
    ELSE [threw |-> FALSE, msg |-> "", value |-> instance]

\* ================================================== the service worker
\* A hostname or a path is a sequence of tokens; includes() is the test for a
\* contiguous run of them.
Includes(s, sub) ==
    \E i \in 0..(Len(s) - Len(sub)) : SubSeq(s, i + 1, i + Len(sub)) = sub

GoogleApisCom == <<"googleapis", ".", "com">>
GoogleCom == <<"google", ".", "com">>
FunctionsPath == <<"/", ".netlify", "/", "functions", "/">>

Url(hostname, pathname) == [hostname |-> hostname, pathname |-> pathname]
Request(method, url) == [method |-> method, url |-> url]

\* the shell the install handler caches: the page and a library of the CDN
URLS_TO_CACHE ==
    {Url(<<"menuguard", ".", "app">>, <<"/">>),
     Url(<<"esm", ".", "sh">>, <<"/", "react">>)}

\* the requests the fetch listener leaves to the browser: it returns before
\* respondWith; the listener that tests the method only
BypassedNonGetOnly(request) == request.method # "GET"
Bypassed(request) ==
    \/ request.method # "GET"
    \/ Includes(request.url.hostname, GoogleApisCom)
    \/ Includes(request.url.hostname, GoogleCom)
    \/ Includes(request.url.pathname, FunctionsPath)

\* caches.match(request): by URL, and nothing for a request that is not a GET
CacheMatch(cache, request) ==
    LET hits == {e \in cache : e.request.url = request.url}
    IN IF request.method # "GET" \/ hits = {} THEN Undef
       ELSE (CHOOSE e \in hits : TRUE).response

\* cache.put(request, response): replaces the entry of the URL
CachePut(cache, request, response) ==
    {e \in cache : e.request.url # request.url}
        \cup {[request |-> request, response |-> response]}

NetResponse(status, version) == [k |-> "object", status |-> status, version |-> version]
Answer(request, by, response) == [request |-> request, by |-> by, response |-> response]

\* ======================================================= the client (App)
\* --- the values the component derives on each render
currentAllergies ==
    IF currentUser # Null /\ Truthy(currentUser.allergies)
    THEN currentUser.allergies ELSE guestAllergies

\* the stored preferences whatever the tier
currentPreferencesUngated ==
    IF currentUser # Null /\ Truthy(currentUser.preferences)
    THEN currentUser.preferences ELSE Str(<<>>)

currentPreferences ==
    IF currentUser # Null /\ Truthy(currentUser.is_pro)
    THEN (IF Truthy(currentUser.preferences) THEN currentUser.preferences ELSE Str(<<>>))
    ELSE Str(<<>>)

showInputSection == ~Truthy(analysisResults) /\ ~isLoadingAnalysis

\* --- handleAnalyze: the checks made before anything is sent
AllergiesError == Atom("Please list your allergies first.")
MenuError ==
    Atom("Please provide a menu as text, an image, a URL, or by scanning a QR code.")
NoLimitError == Atom("Unable to determine your analysis limit. Please contact support.")
LimitError(maxAnalyses) ==
    [k |-> "string",
     a |-> "You have reached your monthly analysis limit of ${maxAnalyses}. Upgrade to Pro for unlimited analyses.",
     maxAnalyses |-> maxAnalyses]
InvalidUrlError == Atom("TypeError: Invalid URL")
ImageError ==
    Atom("The selected image could not be processed. It may be corrupted or in an unsupported format. Please try a different image.")
RequestFailedError == Atom("Request failed with status 500")
FailedToFetchError == Atom("Failed to fetch")
LengthOfNullError == Atom("TypeError: Cannot read properties of null (reading 'length')")
UnknownAnalysisError == Atom("An unknown error occurred during analysis.")
InsertError == Atom("new row violates a policy of table analysis_history")
ScanError == Atom("Scanned QR code does not contain a valid URL.")

\* new URL(s) accepts "u", an absolute URL, and throws on anything else
ValidUrl(s) == Trim(s.s) = <<"u">>

\* entries of the history dated in the current month and year
analysesThisMonth(user) ==
    Cardinality({i \in 1..Len(user.analysisHistory) :
                    /\ user.analysisHistory[i].created_at.m = Today.m
                    /\ user.analysisHistory[i].created_at.y = Today.y})

\* the quota test with > in place of >=
QuotaCheckStrict(user) ==
    IF user # Null /\ ~Truthy(user.is_pro)
    THEN IF user.max_analyses_per_month \notin {Null, Undef}
         THEN IF analysesThisMonth(user) > user.max_analyses_per_month.n
              THEN LimitError(user.max_analyses_per_month.n) ELSE Null
         ELSE NoLimitError
    ELSE Null

\* the block of handleAnalyze under if (currentUser && !currentUser.is_pro)
QuotaCheck(user) ==
    IF user # Null /\ ~Truthy(user.is_pro)
    THEN IF user.max_analyses_per_month \notin {Null, Undef}
         THEN IF analysesThisMonth(user) >= user.max_analyses_per_month.n
              THEN LimitError(user.max_analyses_per_month.n) ELSE Null
         ELSE NoLimitError
    ELSE Null

\* the error a call of handleAnalyze returns with before starting, Null if none
Precheck ==
    IF Trim(currentAllergies.s) = <<>> THEN AllergiesError
    ELSE IF Trim(menuText.s) = <<>> /\ ~Truthy(menuImage) /\ Trim(menuUrl.s) = <<>>
    THEN MenuError
    ELSE QuotaCheck(currentUser)

\* startMenuChat: the primed conversation
\* startMenuChat: the priming turn names the allergies, the preferences and the
\* analysis; the assistant's opening turn follows it
startMenuChat(allergies, preferences, menuAnalysis) ==
    <<[role |-> "user",
       content |-> [k |-> "string", text |-> "Here is the initial analysis",
                    allergies |-> allergies, preferences |-> preferences,
                    menuAnalysis |-> menuAnalysis]],
      [role |-> "model",
       content |-> [k |-> "string", text |-> "Of course! I've reviewed the menu"]]>>

\* a call of a service function by handleAnalyze, with the allergies and the
\* preferences its closure holds
Call(name, allergies, preferences) ==
    [name |-> name, allergies |-> allergies, preferences |-> preferences]

\* a run of handleAnalyze past its checks: where it awaits, the currentUser its
\* closure holds, the calls it has made, the results it received
Run(pc, user, sent, results) ==
    [pc |-> pc, user |-> user, sent |-> sent, results |-> results]
RemoveAt(s, i) == SubSeq(s, 1, i - 1) \o SubSeq(s, i + 1, Len(s))

\* --- the chat of the client
ChatMessage(role, content) == [role |-> role, content |-> content]

\* the request sent without the new user turn
currentHistoryStale(history, message) == history

\* handleSendChatMessage: [...conversationHistory, newUserMessage]
currentHistory(history, message) == Append(history, ChatMessage("user", message))

\* continueChat: the data of the chat request
continueChat(history, message) == [history |-> history, message |-> message]

\* setConversationHistory(prev => prev ? [...prev, m] : [m])
Appended(prev, m) == IF Truthy(prev) THEN Arr(Append(prev.v, m)) ELSE Arr(<<m>>)

\* --- logout
\* currentUser.allergies || ''
SavedAllergies(user) == IF Truthy(user.allergies) THEN user.allergies ELSE Str(<<>>)

\* loadGuestAllergies: localStorage.getItem(GUEST_ALLERGY_KEY) || DEFAULT_ALLERGIES
loadGuestAllergies(item) == IF Truthy(item) THEN item ELSE DEFAULT_ALLERGIES

\* --- the places service of the client (placesService.ts)
MapsNotLoadedError ==
    Atom("Could not connect to Google Places service. The Google Maps API may not be loaded correctly.")
DetailsFailedError == Atom("Place details request failed for placeId ${place_id} with status: ${status}")
SearchFailedError == Atom("Places API search failed with status: ${status}")
RequestDeniedError ==
    Atom("Could not access Google Places service. The provided API key may be invalid or has restrictions.")
GeolocationError == Atom("Geolocation error: ${error.message}. Please enable location services.")

\* the maps API in the browser: whether its script is loaded, the answer of
\* nearbySearch, the places whose getDetails does not answer OK with a place, and
\* the places that list a website
MapsUp(loaded, search, failed, sites) ==
    [loaded |-> loaded, search |-> search, failed |-> failed, sites |-> sites]

\* getPlaceDetails of placesService.ts: resolves with the restaurant, rejects
\* unless the status is OK and a place came with it
placeDetails(place_id, up) ==
    IF place_id \notin up.failed
    THEN [rejected |-> FALSE,
          value |-> [place_id |-> place_id, name |-> "restaurant",
                     website |-> IF place_id \in up.sites THEN Str(<<"u">>) ELSE Undef,
                     isOpen |-> FALSE]]
    ELSE [rejected |-> TRUE, value |-> DetailsFailedError]

\* Promise.all(detailPromises): rejects as soon as one lookup rejects
PromiseAll(settled) ==
    IF \E i \in 1..Len(settled) : settled[i].rejected
    THEN [rejected |-> TRUE,
          value |-> settled[CHOOSE i \in 1..Len(settled) : settled[i].rejected].value]
    ELSE [rejected |-> FALSE, value |-> [i \in 1..Len(settled) |-> settled[i].value]]

\* findNearbyRestaurants of placesService.ts
findNearbyRestaurants(up) ==
    IF ~up.loaded THEN [rejected |-> TRUE, value |-> MapsNotLoadedError]
    ELSE IF up.search.status = "OK" /\ Truthy(up.search.results)
    THEN LET ids == SliceCap(up.search.results.v)
         IN PromiseAll([i \in 1..Len(ids) |-> placeDetails(ids[i], up)])
    ELSE IF up.search.status = "ZERO_RESULTS" THEN [rejected |-> FALSE, value |-> <<>>]
    ELSE [rejected |-> TRUE,
          value |-> IF up.search.status = "REQUEST_DENIED" THEN RequestDeniedError
                    ELSE SearchFailedError]

\* --- the history modal
DeleteError ==
    Atom("Could not delete the analysis from your history. Please try again.")

\* the owner of a deleted row: the row keeps its place in the table's sequence,
\* so that its id is never given to a later row, and belongs to no user
NoOwner == "deleted"

\* deleteAnalysisFromHistory: .delete().eq('id', historyId)
DeleteRow(rows, historyId) ==
    [i \in 1..Len(rows) |->
        IF rows[i].id = historyId THEN [rows[i] EXCEPT !.user_id = NoOwner] ELSE rows[i]]

\* user.analysisHistory.filter(item => item.id !== idToDelete)
updatedHistory(user, idToDelete) ==
    SelectSeq(user.analysisHistory, LAMBDA item : item.id # idToDelete)

\* handleHistoryUpdate, with the currentUser its closure holds
handleHistoryUpdate(user, history) == [user EXCEPT !.analysisHistory = history]

\* ------------------------------------------------- the requests and upstreams
AiTexts == {Undef} \cup {Str(s) : s \in SeqsUpTo(JsonChars, MaxStrLen)}
AiFailure == [threw |-> TRUE, msg |-> UpstreamError, text |-> Undef]
AiAnswer(t) == [threw |-> FALSE, msg |-> "", text |-> t]
AiOutcomes == {AiFailure} \cup {AiAnswer(t) : t \in AiTexts}
AiReplies == {AiFailure, AiAnswer(Undef), AiAnswer(Str(<<"J">>))}

NoSearch == [threw |-> FALSE, status |-> "ZERO_RESULTS", results |-> Undef]
UpAi(ai) == [ai |-> ai, search |-> NoSearch, failed |-> {}, failKind |-> "status"]
NoUp == UpAi(AiAnswer(Str(<<"J">>)))

SearchOutcomes ==
    {[threw |-> TRUE, status |-> "", results |-> Undef],
     [threw |-> FALSE, status |-> "ZERO_RESULTS", results |-> Arr(<<>>)],
     [threw |-> FALSE, status |-> "REQUEST_DENIED", results |-> Undef],
     [threw |-> FALSE, status |-> "OK", results |-> Undef]}
    \cup {[threw |-> FALSE, status |-> "OK", results |-> Arr([i \in 1..r |-> i])] :
            r \in 0..MaxResults}

FailKinds == {"status", "noResult", "throw"}

\* The places upstream: a search outcome and, for an OK search, the places whose
\* detail lookup fails and how.
PlacesUp(search, failed, failKind) ==
    [ai |-> AiAnswer(Undef), search |-> search, failed |-> failed, failKind |-> failKind]

SearchedIds(search) ==
    IF search.status = "OK" /\ search.results # Undef
    THEN {search.results.v[i] : i \in 1..Len(search.results.v)} ELSE {}

KeyVals == {Undef, Str(<<>>), Str(<<"a">>)}
GatewayFns == {"api", "legacy"}

Post(type, data) ==
    [method |-> "POST", parses |-> TRUE, body |-> [type |-> type, data |-> data]]

AnalyzeData ==
    {Undef} \cup
    [allergies : {Str(<<"a">>)}, preferences : {Str(<<>>), Str(<<"a">>)},
     menuText : OptStrings, imagePayload : {Undef, Null, ImagePayload},
     menuUrl : OptStrings]

Contents == {"hi", "what is safe?"}
ChatMessages == [role : {"user", "model"}, content : Contents]
ChatData ==
    {Undef} \cup
    [history : {Undef} \cup {Arr(h) : h \in SeqsUpTo(ChatMessages, MaxHistory)},
     message : {Atom(c) : c \in Contents}]

SummarizeData ==
    {Undef, [results |-> Arr(ModelResults), allergies |-> Str(<<"a">>),
             preferences |-> Str(<<>>)]}

AlternativeData ==
    {Undef} \cup
    [allergies : {Str(<<"a">>)}, preferences : {Str(<<>>)},
     unsafeItemName : {Atom("Pad Thai")},
     menuContext : {Undef, [url |-> Str(<<>>), text |-> Str(<<"a">>)],
                    [url |-> Str(<<"a">>), text |-> Str(<<>>)]},
     safeItems : {Undef, Arr(<<>>), Arr(<<"Rice">>)}]

Coords == {Undef, Num(0), Num(1)}
PlacesData == {Undef} \cup [latitude : Coords, longitude : Coords]

\* Requests the dispatcher cannot read as a {type, data} envelope of a known type.
OddRequests ==
    {[method |-> "POST", parses |-> FALSE, body |-> Undef],
     [method |-> "POST", parses |-> TRUE, body |-> Null],
     [method |-> "POST", parses |-> TRUE, body |-> Num(5)],
     [method |-> "POST", parses |-> TRUE, body |-> [data |-> Undef]],
     Post(Undef, Undef),
     Post(Atom("bogus"), Undef),
     Post(Atom("bogus"), [menuText |-> Str(<<"a">>)])}

RouteRequests ==
    {[method |-> "POST", parses |-> FALSE, body |-> Undef],
     [method |-> "POST", parses |-> TRUE, body |-> Null]}
    \cup {[method |-> "POST", parses |-> TRUE,
           body |-> [menuText |-> t, inputType |-> it]] :
            t \in OptStrings, it \in {Undef, Atom(""), Atom("text"), Atom("url")}}

\* --- what the service is called with and what the tables may hold
Callers == {"login", "listener"}
Email(local, domain) == [k |-> "string", local |-> local, domain |-> domain]
AuthUsers ==
    {[id |-> "u1", email |-> e] :
        e \in {Undef, Email("ann", "example.com"), Email("", "example.com")}}

Without(r, f) == [g \in DOMAIN r \ {f} |-> r[g]]
Soup == Item("Soup", "caution", "may contain gluten", <<Atom("gluten"), Atom("soy")>>)
PricedRice ==
    [k |-> "object", itemName |-> Atom("Rice"), safetyLevel |-> Atom("safe"),
     reasoning |-> Atom("no listed allergen"), identifiedAllergens |-> Arr(<<>>),
     price |-> Num(9)]
WellFormedItems == {PadThai, Rice, Soup, PricedRice}
IllFormedItems ==
    {Null, Atom("Pad Thai"), Arr(<<>>),
     Without(PadThai, "itemName"), Without(PadThai, "safetyLevel"),
     Without(PadThai, "reasoning"), Without(PadThai, "identifiedAllergens"),
     [PadThai EXCEPT !.itemName = Num(7)],
     [PadThai EXCEPT !.safetyLevel = Atom("danger")],
     [PadThai EXCEPT !.safetyLevel = Null],
     [PadThai EXCEPT !.reasoning = Null],
     [PadThai EXCEPT !.identifiedAllergens = Atom("peanuts")],
     [PadThai EXCEPT !.identifiedAllergens = Null],
     [PadThai EXCEPT !.identifiedAllergens = Arr(<<Atom("peanuts"), Num(3)>>)]}

\* what an analysis hands to addAnalysisToHistory: a parsed JSON value of some length
InsertableResults ==
    {Atom("no menu found")}
    \cup {Arr(<<v>>) : v \in WellFormedItems \cup IllFormedItems}
    \cup {Arr(<<PadThai, Rice>>), Arr(<<Rice, PadThai>>),
          Arr(<<PadThai, Null>>), Arr(<<Rice, Without(PadThai, "reasoning")>>)}

\* what column result of a stored row may hold: any JSON value
StoredResults == InsertableResults \cup {Null, Num(0), PadThai, Arr(<<>>)}

ProProfile ==
    [id |-> "u1", username |-> Atom("ann"), allergies |-> Str(<<"a">>),
     preferences |-> Str(<<"a">>), is_pro |-> Bool(TRUE),
     max_analyses_per_month |-> Null]

\* the default of column max_analyses_per_month, which the schema sets
QuotaDefaults == {Null, Num(DEFAULT_ANALYSIS_LIMIT)}

\* the identities the auth service may know: the id it gives and the email
Identities ==
    {[id |-> "u1", email |-> Email("ann", "example.com")],
     [id |-> "u2", email |-> Email("bob", "example.com")]}
SignUpOutcomes == {"error", "registered", "session"}

\* --- what the page may request through the service worker
BackendHost == <<"abc", ".", "supabase", ".", "co">>
SwUrls ==
    URLS_TO_CACHE \cup
    {Url(<<"menuguard", ".", "app">>, <<"/", ".netlify", "/", "functions", "/", "api">>),
     Url(<<"maps", ".", "googleapis", ".", "com">>, <<"/", "place">>),
     Url(<<"fonts", ".", "google", ".", "com">>, <<"/">>),
     Url(BackendHost, <<"/", "rest", "/", "profiles">>)}
\* the page reads every URL and posts to its functions and to the backend
SwRequests ==
    {Request("GET", url) : url \in SwUrls}
    \cup {Request("POST", url) :
            url \in {u \in SwUrls : u.hostname = BackendHost
                                      \/ Includes(u.pathname, FunctionsPath)}}
\* how the network answers: a status, or no answer at all
NetStatuses == {200, 404}

\* what the configuration may hand to initSupabase
ClientArgs == {Undef, Str(<<>>), Str(<<" ">>), Str(<<"a">>), Str(<<"b">>)}

NoRet == [ok |-> FALSE, msg |-> "", user |-> Null]
Returned(user) == [ok |-> TRUE, msg |-> "", user |-> user]
Thrown(msg) == [ok |-> FALSE, msg |-> msg, user |-> Null]


\* --- what the client is given
MenuTexts == {Str(<<>>), Str(<<" ">>), Str(<<"a">>)}
MenuUrls == {Str(<<>>), Str(<<"u">>), Str(<<"x">>)}
MenuImages == {Null, [k |-> "object", name |-> "menu.jpg"]}
ScanData == {Null, Str(<<"u">>), Str(<<"x">>)}
GuestAllergies == {Str(<<>>), Str(<<" ">>), Str(<<"a">>)}
AnalyzeReplies ==
    {[ok |-> FALSE, body |-> RequestFailedError], [ok |-> FALSE, body |-> FailedToFetchError],
     [ok |-> TRUE, body |-> Null], [ok |-> TRUE, body |-> Arr(<<>>)],
     [ok |-> TRUE, body |-> Arr(ModelResults)]}
SummarizeReplies ==
    {[ok |-> FALSE, body |-> RequestFailedError],
     [ok |-> TRUE, body |-> Atom("Rice is safe.")]}

\* the months a stored analysis may be dated in, oldest first
Months == <<[y |-> 2024, m |-> 0], [y |-> 2024, m |-> 11], Today>>
Timelines(n) == {f \in [1..n -> 1..Len(Months)] : \A i, j \in 1..n : i < j => f[i] <= f[j]}
RowsAt(f) ==
    [i \in DOMAIN f |->
        [id |-> i, user_id |-> "u1", result |-> Arr(ModelResults),
         created_at |-> Stamp(Months[f[i]].y, Months[f[i]].m, i)]]

Quotas == {Null} \cup {Num(n) : n \in 0..MaxRows}
AppProfiles ==
    [id : {"u1"}, username : {Atom("ann")}, allergies : {Null, Str(<<" ">>), Str(<<"a">>)},
     preferences : {Str(<<"a">>)}, is_pro : {Bool(FALSE)}, max_analyses_per_month : Quotas]
    \cup
    [id : {"u1"}, username : {Atom("ann")}, allergies : {Str(<<"a">>)},
     preferences : {Str(<<"a">>)}, is_pro : {Bool(TRUE), Null},
     max_analyses_per_month : {Null, Num(0)}]
Ann == [id |-> "u1", email |-> Email("ann", "example.com")]


\* what the chat field holds when the form is submitted
ChatInputs == {Str(<<>>), Str(<<" ">>), Str(<<"a">>), Str(<<" ", "a">>)}
ChatReplies ==
    {[ok |-> FALSE, body |-> RequestFailedError],
     [ok |-> TRUE, body |-> Atom("Yes, the rice is safe.")]}

\* the answers of the maps API to a search of the client
MapsSearches ==
    {s \in SearchOutcomes :
        /\ ~s.threw
        /\ s.results # Undef /\ s.status = "OK" => Len(s.results.v) \in {0, 2, MaxResults}}
MapsUps ==
    {MapsUp(l, s, f, w) :
        l \in BOOLEAN, s \in MapsSearches, f \in {{}, {2}, {MaxResults}}, w \in {{}, {1}}}

\* -------------------------------------------------------------- the actions
cfgIdle == cfgEnv = [n \in EnvNames |-> Undef] /\ cfgResp = <<>>
accIdle == authAccounts = {} /\ supabaseInstance = Null /\ clientRet = Null
swIdle == swCache = {} /\ swServer = <<>> /\ swPending = <<>> /\ swLast = Null
sideIdle == accIdle /\ swIdle
gwIdle ==
    /\ gwKey = Undef /\ gwFn = "none" /\ gwReq = Undef /\ gwUp = NoUp
    /\ gwResp = <<>> /\ gwAiCalls = <<>> /\ gwFetches = <<>> /\ gwRan = {}

\* One invocation of a function, run to completion: nothing carries over.
Serve(fn, req, up) ==
    LET out == CASE fn = "api" -> MainHandler(req, gwKey, up)
                 [] fn = "legacy" -> LegacyMainHandler(req, up)
                 [] fn = "route" -> RoutePOST(req)
    IN /\ gwFn' = fn /\ gwReq' = req /\ gwUp' = up
       /\ gwResp' = out.resps /\ gwRan' = out.ran
       /\ gwAiCalls' = out.ai /\ gwFetches' = out.fetches
       /\ UNCHANGED <<gwKey, cfgVars, accVars, swVars, dbVars, svcVars, appVars>>

GwNonPost ==
    /\ gwFn = "none"
    /\ \E fn \in GatewayFns, m \in {"GET", "PUT"}, d \in SummarizeData, ai \in AiReplies :
           Serve(fn, [Post(Atom("summarize"), d) EXCEPT !.method = m], UpAi(ai))

GwOdd ==
    /\ gwFn = "none"
    /\ \E fn \in GatewayFns, r \in OddRequests : Serve(fn, r, NoUp)

GwAnalyze ==
    /\ gwFn = "none"
    /\ \E fn \in GatewayFns, d \in AnalyzeData, ai \in AiOutcomes :
           Serve(fn, Post(Atom("analyze"), d), UpAi(ai))

GwSummarize ==
    /\ gwFn = "none"
    /\ \E fn \in GatewayFns, d \in SummarizeData, ai \in AiReplies :
           Serve(fn, Post(Atom("summarize"), d), UpAi(ai))

GwAlternative ==
    /\ gwFn = "none"
    /\ \E fn \in GatewayFns, d \in AlternativeData, ai \in AiReplies :
           Serve(fn, Post(Atom("alternative"), d), UpAi(ai))

GwChat ==
    /\ gwFn = "none"
    /\ \E fn \in GatewayFns, d \in ChatData, ai \in AiReplies :
           Serve(fn, Post(Atom("chat"), d), UpAi(ai))

\* The places upstream is consulted only once the handler's own checks passed.
GwPlaces ==
    /\ gwFn = "none"
    /\ \E d \in PlacesData :
           IF PlacesPrecheck(d, gwKey) # ""
           THEN Serve("api", Post(Atom("places"), d), NoUp)
           ELSE \E s \in SearchOutcomes :
                    \E f \in SUBSET SearchedIds(s), fk \in FailKinds :
                        Serve("api", Post(Atom("places"), d), PlacesUp(s, f, fk))

GwLegacyPlaces ==
    /\ gwFn = "none"
    /\ \E d \in PlacesData : Serve("legacy", Post(Atom("places"), d), NoUp)

GwRoute ==
    /\ gwFn = "none"
    /\ \E r \in RouteRequests : Serve("route", r, NoUp)

\* The invocation is over; the next request finds a function with no memory of it.
GwDone ==
    /\ gwFn # "none"
    /\ gwFn' = "none" /\ gwReq' = Undef /\ gwUp' = NoUp
    /\ gwResp' = <<>> /\ gwRan' = {} /\ gwAiCalls' = <<>> /\ gwFetches' = <<>>
    /\ UNCHANGED <<gwKey, cfgVars, accVars, swVars, dbVars, svcVars, appVars>>

ConfigRequest ==
    /\ cfgResp = <<>>
    /\ cfgResp' = <<ConfigHandler(cfgEnv)>>
    /\ UNCHANGED <<cfgEnv, accVars, swVars, gwVars, dbVars, svcVars, appVars>>

\* --- the data-access service: getUserProfile, one await at a time
svcQuiet ==
    /\ svcAuth = Null
    /\ svcPc = [c \in Callers |-> "idle"]
    /\ svcProfile = [c \in Callers |-> Null]
    /\ svcRet = [c \in Callers |-> NoRet]
    /\ svcRaw = [c \in Callers |-> <<>>]
    /\ svcNet = FALSE

svcIdle == dbProfiles = <<>> /\ dbHistory = <<>> /\ svcQuiet

\* the call is made and the profile select is sent
GupCall(c) ==
    /\ svcPc[c] \in {"idle", "done", "failed"}
    /\ svcPc' = [svcPc EXCEPT ![c] = "select"]
    /\ UNCHANGED <<cfgVars, accVars, swVars, gwVars, appVars, dbVars, svcAuth, svcProfile, svcRet, svcRaw, svcNet>>

\* the profile select answers
GupSelected(c) ==
    /\ svcPc[c] = "select"
    /\ \E res \in {DbError(Transport), SelectSingle(dbProfiles, svcAuth.id)} :
         /\ svcNet' = (svcNet \/ res.error = Transport)
         /\ IF ProfileMissing(res)
            THEN /\ svcPc' = [svcPc EXCEPT ![c] = "insert"]
                 /\ UNCHANGED <<svcProfile, svcRet>>
            ELSE IF res.error # ""
            THEN /\ svcPc' = [svcPc EXCEPT ![c] = "failed"]
                 /\ svcRet' = [svcRet EXCEPT ![c] = Thrown(RetrieveProfileError)]
                 /\ UNCHANGED svcProfile
            ELSE /\ svcPc' = [svcPc EXCEPT ![c] = "history"]
                 /\ svcProfile' = [svcProfile EXCEPT ![c] = res.data]
                 /\ UNCHANGED svcRet
    /\ UNCHANGED <<cfgVars, accVars, swVars, gwVars, appVars, dbVars, svcAuth, svcRaw>>

\* the insert of the default profile answers
GupInserted(c) ==
    /\ svcPc[c] = "insert"
    /\ \E res \in {DbError(Transport),
                   InsertProfile(dbProfiles, newProfileData(svcAuth))} :
         /\ svcNet' = (svcNet \/ res.error = Transport)
         /\ IF res.error # ""
            THEN /\ svcPc' = [svcPc EXCEPT ![c] = "failed"]
                 /\ svcRet' = [svcRet EXCEPT ![c] = Thrown(CreateProfileError)]
                 /\ UNCHANGED <<dbProfiles, svcRaw>>
            ELSE /\ dbProfiles' = Append(dbProfiles, res.data)
                 /\ svcPc' = [svcPc EXCEPT ![c] = "done"]
                 /\ svcRet' = [svcRet EXCEPT ![c] = Returned(User(res.data, svcAuth, <<>>))]
                 /\ svcRaw' = [svcRaw EXCEPT ![c] = <<>>]
    /\ UNCHANGED <<cfgVars, accVars, swVars, gwVars, appVars, dbHistory, svcAuth, svcProfile>>

\* the history select answers; its failure is only logged
GupHistoryLoaded(c) ==
    /\ svcPc[c] = "history"
    /\ \E res \in {DbError(Transport), SelectHistory(dbHistory, svcAuth.id)} :
         /\ svcNet' = (svcNet \/ res.error = Transport)
         /\ svcPc' = [svcPc EXCEPT ![c] = "done"]
         /\ svcRet' = [svcRet EXCEPT ![c] =
                          Returned(User(svcProfile[c], svcAuth, DecodeHistory(res)))]
         /\ svcRaw' = [svcRaw EXCEPT ![c] =
                          IF res.data = Null THEN <<>> ELSE res.data.v]
    /\ UNCHANGED <<cfgVars, accVars, swVars, gwVars, appVars, dbVars, svcAuth, svcProfile>>

\* --- signup, login, resetPassword and the auth listener
AuthApiError == "AuthApiError"
NoCallInFlight == \A c \in Callers : svcPc[c] \in {"idle", "done", "failed"}

\* signup with a profile insert of its own: what the service does not do
SignupWithProfile(a) ==
    /\ NoCallInFlight
    /\ \E outcome \in SignUpOutcomes :
         /\ outcome # "error"
         /\ authAccounts' = authAccounts \cup {a}
         /\ dbProfiles' = IF RowsOf(dbProfiles, "id", a.id) # <<>> THEN dbProfiles
                          ELSE Append(dbProfiles, newProfileData(a))
         /\ svcAuth' = IF outcome = "session" THEN a ELSE svcAuth
    /\ UNCHANGED <<cfgVars, supabaseInstance, clientRet, swVars, gwVars, appVars,
                   dbHistory, svcPc, svcProfile, svcRet, svcRaw, svcNet>>

\* signup: auth.signUp only; the auth service may sign the new identity in at once
Signup(a) ==
    /\ NoCallInFlight
    /\ \E outcome \in SignUpOutcomes :
         /\ outcome # "error"
         /\ a \notin authAccounts
         /\ authAccounts' = authAccounts \cup {a}
         /\ svcAuth' = IF outcome = "session" THEN a ELSE svcAuth
    /\ UNCHANGED <<cfgVars, supabaseInstance, clientRet, swVars, gwVars, appVars,
                   dbVars, svcPc, svcProfile, svcRet, svcRaw, svcNet>>

\* login: auth.signInWithPassword, then getUserProfile(data.user)
Login(a) ==
    /\ NoCallInFlight
    /\ \E accepted \in BOOLEAN :
         IF accepted /\ a \in authAccounts
         THEN /\ svcAuth' = a
              /\ svcPc' = [svcPc EXCEPT !["login"] = "select"]
              /\ UNCHANGED svcRet
         ELSE /\ svcPc' = [svcPc EXCEPT !["login"] = "failed"]
              /\ svcRet' = [svcRet EXCEPT !["login"] = Thrown(AuthApiError)]
              /\ UNCHANGED svcAuth
    /\ UNCHANGED <<cfgVars, accVars, swVars, gwVars, appVars, dbVars, svcProfile,
                   svcRaw, svcNet>>

\* resetPassword: auth.updateUser({password}) of the session, then getUserProfile
ResetPassword ==
    /\ NoCallInFlight
    /\ svcAuth # Null
    /\ \E accepted \in BOOLEAN :
         IF accepted
         THEN /\ svcPc' = [svcPc EXCEPT !["login"] = "select"]
              /\ UNCHANGED svcRet
         ELSE /\ svcPc' = [svcPc EXCEPT !["login"] = "failed"]
              /\ svcRet' = [svcRet EXCEPT !["login"] = Thrown(AuthApiError)]
    /\ UNCHANGED <<cfgVars, accVars, swVars, gwVars, appVars, dbVars, svcAuth,
                   svcProfile, svcRaw, svcNet>>

\* onAuthStateChange with a session: getUserProfile(session.user)
SessionEvent ==
    /\ svcAuth # Null
    /\ GupCall("listener")

\* --- the older service: getUserProfile of authService.ts, one await at a time
LegacyGupCall(c) ==
    /\ svcPc[c] \in {"idle", "done", "failed"}
    /\ svcPc' = [svcPc EXCEPT ![c] = "lselect"]
    /\ UNCHANGED <<cfgVars, accVars, swVars, gwVars, appVars, dbVars, svcAuth, svcProfile, svcRet, svcRaw, svcNet>>

LegacyGupSelected(c) ==
    /\ svcPc[c] = "lselect"
    /\ \E res \in {DbError(Transport), SelectSingle(dbProfiles, svcAuth.id)} :
         /\ svcNet' = (svcNet \/ res.error = Transport)
         /\ IF ProfileMissing(res)
            THEN /\ svcPc' = [svcPc EXCEPT ![c] = "linsert"]
                 /\ UNCHANGED <<svcProfile, svcRet>>
            ELSE IF res.error # ""
            THEN /\ svcPc' = [svcPc EXCEPT ![c] = "failed"]
                 /\ svcRet' = [svcRet EXCEPT ![c] = Thrown(RetrieveProfileError)]
                 /\ UNCHANGED svcProfile
            ELSE /\ svcPc' = [svcPc EXCEPT ![c] = "lhistory"]
                 /\ svcProfile' = [svcProfile EXCEPT ![c] = res.data]
                 /\ UNCHANGED svcRet
    /\ UNCHANGED <<cfgVars, accVars, swVars, gwVars, appVars, dbVars, svcAuth, svcRaw>>

LegacyGupInserted(c) ==
    /\ svcPc[c] = "linsert"
    /\ \E quotaDefault \in QuotaDefaults :
       \E res \in {DbError(Transport),
                   InsertProfile(dbProfiles,
                       StoredProfile(legacyNewProfileData(svcAuth), quotaDefault))} :
         /\ svcNet' = (svcNet \/ res.error = Transport)
         /\ IF res.error # ""
            THEN /\ svcPc' = [svcPc EXCEPT ![c] = "failed"]
                 /\ svcRet' = [svcRet EXCEPT ![c] = Thrown(CreateProfileError)]
                 /\ UNCHANGED <<dbProfiles, svcRaw>>
            ELSE /\ dbProfiles' = Append(dbProfiles, res.data)
                 /\ svcPc' = [svcPc EXCEPT ![c] = "done"]
                 /\ svcRet' = [svcRet EXCEPT ![c] =
                                  Returned(legacyUser(res.data, svcAuth, <<>>))]
                 /\ svcRaw' = [svcRaw EXCEPT ![c] = <<>>]
    /\ UNCHANGED <<cfgVars, accVars, swVars, gwVars, appVars, dbHistory, svcAuth, svcProfile>>

\* (history as AnalysisHistoryEntry[]) || []: the rows are trusted as they come
LegacyGupHistoryLoaded(c) ==
    /\ svcPc[c] = "lhistory"
    /\ \E res \in {DbError(Transport), legacySelectHistory(dbHistory, svcAuth.id)} :
         LET history == IF res.data = Null THEN <<>> ELSE res.data.v
         IN /\ svcNet' = (svcNet \/ res.error = Transport)
            /\ svcPc' = [svcPc EXCEPT ![c] = "done"]
            /\ svcRet' = [svcRet EXCEPT ![c] =
                             Returned(legacyUser(svcProfile[c], svcAuth, history))]
            /\ svcRaw' = [svcRaw EXCEPT ![c] = history]
    /\ UNCHANGED <<cfgVars, accVars, swVars, gwVars, appVars, dbVars, svcAuth, svcProfile>>

\* addAnalysisToHistory(currentUser, results, ...) by the holder of a loaded user
AddAnalysis(c) ==
    /\ svcPc[c] = "done" /\ svcRet[c].ok
    /\ Len(dbHistory) < MaxRows
    /\ \E results \in InsertableResults, failed \in BOOLEAN :
         IF failed
         THEN /\ svcNet' = TRUE
              /\ svcPc' = [svcPc EXCEPT ![c] = "failed"]
              /\ svcRet' = [svcRet EXCEPT ![c] = Thrown(Transport)]
              /\ UNCHANGED <<dbHistory, svcRaw>>
         ELSE LET row == HistoryRow(dbHistory, svcRet[c].user.id, results)
              IN /\ dbHistory' = Append(dbHistory, row)
                 /\ svcRet' = [svcRet EXCEPT ![c] =
                        Returned(WithNewEntry(svcRet[c].user, newHistoryEntry(row)))]
                 /\ svcRaw' = [svcRaw EXCEPT ![c] =
                        <<row>> \o SelectSeq(svcRaw[c], LAMBDA r : r.id # row.id)]
                 /\ UNCHANGED <<svcPc, svcNet>>
    /\ UNCHANGED <<cfgVars, accVars, swVars, gwVars, appVars, dbProfiles, svcAuth, svcProfile>>

\* --- the backend client module: a call of initSupabase, of getSupabaseClient
InitSupabaseCall(url, anonKey) ==
    /\ LET out == initSupabase(supabaseInstance, url, anonKey)
       IN /\ supabaseInstance' = out.instance
          /\ clientRet' = [call |-> "initSupabase", url |-> url, anonKey |-> anonKey,
                           threw |-> out.threw, msg |-> out.msg, value |-> Undef]
    /\ UNCHANGED <<cfgVars, authAccounts, swVars, gwVars, dbVars, svcVars, appVars>>

GetSupabaseClientCall ==
    /\ LET out == getSupabaseClient(supabaseInstance)
       IN clientRet' = [call |-> "getSupabaseClient", url |-> Undef, anonKey |-> Undef,
                        threw |-> out.threw, msg |-> out.msg, value |-> out.value]
    /\ UNCHANGED <<cfgVars, authAccounts, supabaseInstance, swVars, gwVars, dbVars,
                   svcVars, appVars>>

\* --- the service worker: install and fetch
\* install: cache.addAll(URLS_TO_CACHE) stores all of the shell or nothing
SwInstall ==
    /\ \E allFetched \in BOOLEAN :
         swCache' =
            IF allFetched
            THEN {e \in swCache : e.request.url \notin URLS_TO_CACHE}
                 \cup {[request |-> Request("GET", u),
                        response |-> NetResponse(200, swServer[u])] : u \in URLS_TO_CACHE}
            ELSE swCache
    /\ UNCHANGED <<cfgVars, accVars, swServer, swPending, swLast, gwVars, dbVars,
                   svcVars, appVars>>

\* a request the listener left alone: the browser sends it; a POST that
\* succeeds changes what the server holds
SentByBrowser(request) ==
    \E status \in NetStatuses, rejected \in BOOLEAN :
       LET written == request.method # "GET" /\ status = 200 /\ ~rejected
           version == swServer[request.url] + (IF written THEN 1 ELSE 0)
       IN /\ written => swServer[request.url] < MaxWrites
          /\ swServer' = [swServer EXCEPT ![request.url] = version]
          /\ swLast' = Answer(request, "network",
                              IF rejected THEN Undef ELSE NetResponse(status, version))
          /\ UNCHANGED <<swCache, swPending>>

\* the fetch listener up to caches.match
SwFetch(request) ==
    /\ IF Bypassed(request) THEN SentByBrowser(request)
       ELSE LET response == CacheMatch(swCache, request)
            IN IF response # Undef
               THEN /\ swLast' = Answer(request, "cache", response)
                    /\ UNCHANGED <<swCache, swServer, swPending>>
               ELSE /\ Len(swPending) < MaxPending
                    /\ swPending' = Append(swPending, request)
                    /\ UNCHANGED <<swCache, swServer, swLast>>
    /\ UNCHANGED <<cfgVars, accVars, gwVars, dbVars, svcVars, appVars>>

\* fetch(event.request) of the listener answers: a 200 is put in the cache; a
\* rejection is caught and the event is answered with nothing
SwNetworkAnswered(i) ==
    /\ i \in 1..Len(swPending)
    /\ \E status \in NetStatuses, rejected \in BOOLEAN :
         LET request == swPending[i]
             networkResponse == NetResponse(status, swServer[request.url])
         IN /\ swCache' = IF ~rejected /\ status = 200
                          THEN CachePut(swCache, request, networkResponse)
                          ELSE swCache
            /\ swLast' = Answer(request, "fetch",
                                IF rejected THEN Undef ELSE networkResponse)
    /\ swPending' = RemoveAt(swPending, i)
    /\ UNCHANGED <<cfgVars, accVars, swServer, gwVars, dbVars, svcVars, appVars>>

\* --- upgradeToPro, from the history modal of a signed-in user
\* auth.getUser() answers
UpgradeCall(c) ==
    /\ svcPc[c] = "done" /\ svcRet[c].ok
    /\ IF svcAuth = Null
       THEN /\ svcPc' = [svcPc EXCEPT ![c] = "failed"]
            /\ svcRet' = [svcRet EXCEPT ![c] = Thrown(NotAuthenticatedError)]
       ELSE /\ svcPc' = [svcPc EXCEPT ![c] = "update"]
            /\ UNCHANGED svcRet
    /\ UNCHANGED <<cfgVars, accVars, swVars, gwVars, appVars, dbVars, svcAuth,
                   svcProfile, svcRaw, svcNet>>

\* the update answers; getUserProfile(user) follows it
UpgradeUpdated(c) ==
    /\ svcPc[c] = "update"
    /\ \E failed \in BOOLEAN :
         IF failed
         THEN /\ svcNet' = TRUE
              /\ svcPc' = [svcPc EXCEPT ![c] = "failed"]
              /\ svcRet' = [svcRet EXCEPT ![c] = Thrown(UpgradeError)]
              /\ UNCHANGED dbProfiles
         ELSE /\ dbProfiles' = UpdateProfiles(dbProfiles, svcAuth.id)
              /\ svcPc' = [svcPc EXCEPT ![c] = "select"]
              /\ UNCHANGED <<svcRet, svcNet>>
    /\ UNCHANGED <<cfgVars, accVars, swVars, gwVars, appVars, dbHistory, svcAuth,
                   svcProfile, svcRaw>>

\* --- the client: handlers of the App component
sessIdle ==
    /\ isChatLoading = FALSE /\ chats = <<>> /\ logoutPending = FALSE
    /\ guestStore = Null /\ restaurants = Null /\ isFindingRestaurants = FALSE
    /\ locationError = Null /\ mapsUp = Null /\ deletingId = Null
    /\ modalError = Null /\ deleteCalls = <<>>

appIdle ==
    /\ currentUser = Null /\ guestAllergies = Str(<<>>)
    /\ menuText = Str(<<>>) /\ menuImage = Null /\ menuUrl = Str(<<>>)
    /\ analysisResults = Null /\ isLoadingAnalysis = FALSE /\ error = Null
    /\ analysisSummary = Null /\ menuContextForSuggestions = Null
    /\ conversationHistory = Null /\ autoAnalysisTrigger = 0
    /\ isScannerOpen = FALSE /\ effectPending = FALSE /\ runs = <<>>
    /\ lastCall = "none"
    /\ sessIdle

appOthers == <<cfgVars, accVars, swVars, gwVars, dbProfiles, svcVars, sessVars>>

\* handleAnalyze up to its first await; the state updates of one call are batched
App_handleAnalyze ==
    IF Precheck # Null
    THEN /\ error' = Precheck
         /\ lastCall' = "returned"
         /\ UNCHANGED <<isLoadingAnalysis, analysisResults, analysisSummary,
                        menuContextForSuggestions, conversationHistory, runs>>
    ELSE IF Trim(menuUrl.s) # <<>> /\ ~ValidUrl(menuUrl)
    THEN \* new URL(contextUrl) throws: catch and finally run at once
         /\ error' = InvalidUrlError
         /\ isLoadingAnalysis' = FALSE
         /\ analysisResults' = Null /\ analysisSummary' = Null
         /\ menuContextForSuggestions' = Null /\ conversationHistory' = Null
         /\ lastCall' = "threw"
         /\ UNCHANGED runs
    ELSE /\ error' = Null
         /\ isLoadingAnalysis' = TRUE
         /\ analysisResults' = Null /\ analysisSummary' = Null
         /\ menuContextForSuggestions' = [text |-> menuText, url |-> menuUrl]
         /\ conversationHistory' = Null
         /\ runs' = Append(runs,
                Run(IF Truthy(menuImage) THEN "image" ELSE "analyze", currentUser,
                    <<Call("analyzeMenu", currentAllergies, currentPreferences)>>, Null))
         /\ lastCall' = "started"

\* the Analyze button
ClickAnalyze ==
    /\ ~effectPending /\ ~isScannerOpen /\ showInputSection
    /\ App_handleAnalyze
    /\ UNCHANGED <<currentUser, guestAllergies, menuText, menuImage, menuUrl,
                   autoAnalysisTrigger, isScannerOpen, effectPending, dbHistory,
                   appOthers>>

\* useEffect on [autoAnalysisTrigger, handleAnalyze]
AutoAnalysisEffect ==
    /\ effectPending
    /\ effectPending' = FALSE
    /\ IF autoAnalysisTrigger > 0 THEN App_handleAnalyze
       ELSE /\ lastCall' = "none"
            /\ UNCHANGED <<error, isLoadingAnalysis, analysisResults, analysisSummary,
                           menuContextForSuggestions, conversationHistory, runs>>
    /\ UNCHANGED <<currentUser, guestAllergies, menuText, menuImage, menuUrl,
                   autoAnalysisTrigger, isScannerOpen, dbHistory, appOthers>>

uiRest ==
    <<isLoadingAnalysis, analysisResults, analysisSummary, menuContextForSuggestions,
      conversationHistory, runs, dbHistory, appOthers>>

\* MenuInput: text, URL and image fields
SetMenuText(t) ==
    /\ ~effectPending /\ ~isScannerOpen /\ showInputSection
    /\ t # menuText
    /\ menuText' = t /\ effectPending' = TRUE /\ lastCall' = "none"
    /\ UNCHANGED <<currentUser, guestAllergies, menuImage, menuUrl, error,
                   autoAnalysisTrigger, isScannerOpen, uiRest>>

SetMenuUrl(u) ==
    /\ ~effectPending /\ ~isScannerOpen /\ showInputSection
    /\ u # menuUrl
    /\ menuUrl' = u /\ effectPending' = TRUE /\ lastCall' = "none"
    /\ UNCHANGED <<currentUser, guestAllergies, menuText, menuImage, error,
                   autoAnalysisTrigger, isScannerOpen, uiRest>>

SetMenuImage(f) ==
    /\ ~effectPending /\ ~isScannerOpen /\ showInputSection
    /\ f # menuImage
    /\ menuImage' = f /\ effectPending' = TRUE /\ lastCall' = "none"
    /\ UNCHANGED <<currentUser, guestAllergies, menuText, menuUrl, error,
                   autoAnalysisTrigger, isScannerOpen, uiRest>>

\* AllergyInput of a guest
handleGuestAllergiesChange(a) ==
    /\ ~effectPending /\ ~isScannerOpen /\ showInputSection /\ currentUser = Null
    /\ a # guestAllergies
    /\ guestAllergies' = a /\ guestStore' = a
    /\ effectPending' = TRUE /\ lastCall' = "none"
    /\ UNCHANGED <<currentUser, menuText, menuImage, menuUrl, error,
                   autoAnalysisTrigger, isScannerOpen, isLoadingAnalysis,
                   analysisResults, analysisSummary, menuContextForSuggestions,
                   conversationHistory, runs, dbHistory, cfgVars, accVars, swVars,
                   gwVars, dbProfiles, svcVars, isChatLoading, chats, logoutPending,
                   restaurants, isFindingRestaurants, locationError, mapsUp,
                   deletingId, modalError, deleteCalls>>

DismissError ==
    /\ ~effectPending /\ ~isScannerOpen /\ Truthy(error)
    /\ error' = Null /\ lastCall' = "none"
    /\ UNCHANGED <<currentUser, guestAllergies, menuText, menuImage, menuUrl,
                   autoAnalysisTrigger, isScannerOpen, effectPending, uiRest>>

OpenScanner ==
    /\ ~effectPending /\ ~isScannerOpen /\ showInputSection
    /\ isScannerOpen' = TRUE /\ lastCall' = "none"
    /\ UNCHANGED <<currentUser, guestAllergies, menuText, menuImage, menuUrl, error,
                   autoAnalysisTrigger, effectPending, uiRest>>

CloseScanner ==
    /\ ~effectPending /\ isScannerOpen
    /\ isScannerOpen' = FALSE /\ lastCall' = "none"
    /\ UNCHANGED <<currentUser, guestAllergies, menuText, menuImage, menuUrl, error,
                   autoAnalysisTrigger, effectPending, uiRest>>

handleScanSuccess(data) ==
    /\ ~effectPending /\ isScannerOpen
    /\ IF Truthy(data)
       THEN IF ValidUrl(data)
            THEN /\ menuUrl' = data /\ autoAnalysisTrigger' = 1
                 /\ effectPending' = TRUE
                 /\ UNCHANGED error
            ELSE /\ error' = ScanError
                 /\ UNCHANGED <<menuUrl, autoAnalysisTrigger, effectPending>>
       ELSE UNCHANGED <<menuUrl, autoAnalysisTrigger, effectPending, error>>
    /\ isScannerOpen' = FALSE /\ lastCall' = "none"
    /\ UNCHANGED <<currentUser, guestAllergies, menuText, menuImage, uiRest>>


\* --- handleAnalyze past its first await: one step per answer it waits for
\* the catch block without setAnalysisResults(null)
CaughtKeepingResults(i, msg) ==
    /\ error' = msg /\ isLoadingAnalysis' = FALSE
    /\ UNCHANGED analysisResults
    /\ runs' = RemoveAt(runs, i)

Caught(i, msg) ==
    /\ error' = msg /\ analysisResults' = Null /\ isLoadingAnalysis' = FALSE
    /\ runs' = RemoveAt(runs, i)

Finally(i) == isLoadingAnalysis' = FALSE /\ runs' = RemoveAt(runs, i)

runRest ==
    <<guestAllergies, menuText, menuImage, menuUrl, autoAnalysisTrigger, isScannerOpen,
      menuContextForSuggestions, appOthers>>

\* analyzeMenu: processImageForUpload settles; the analyze request follows it
ImageProcessed(i) ==
    /\ ~effectPending /\ i \in 1..Len(runs) /\ runs[i].pc = "image"
    /\ \E ok \in BOOLEAN :
         IF ok
         THEN /\ runs' = [runs EXCEPT ![i] = Run("analyze", @.user, @.sent, Null)]
              /\ UNCHANGED <<error, analysisResults, isLoadingAnalysis>>
         ELSE Caught(i, ImageError)
    /\ lastCall' = "none"
    /\ UNCHANGED <<currentUser, analysisSummary, conversationHistory, effectPending,
                   dbHistory, runRest>>

\* the analyze request settles
AnalyzeAnswered(i) ==
    /\ ~effectPending /\ i \in 1..Len(runs) /\ runs[i].pc = "analyze"
    /\ \E reply \in AnalyzeReplies :
         IF ~reply.ok THEN Caught(i, reply.body)
         ELSE IF reply.body = Null THEN Caught(i, LengthOfNullError)
         ELSE IF Len(reply.body.v) > 0
         THEN /\ analysisResults' = reply.body
              /\ runs' = [runs EXCEPT ![i] =
                            Run("summarize", @.user,
                                @.sent \o <<Call("summarizeSafeOptions",
                                                 @.sent[1].allergies,
                                                 @.sent[1].preferences)>>,
                                reply.body)]
              /\ UNCHANGED <<error, isLoadingAnalysis>>
         ELSE /\ analysisResults' = reply.body
              /\ Finally(i)
              /\ UNCHANGED error
    /\ lastCall' = "none"
    /\ UNCHANGED <<currentUser, analysisSummary, conversationHistory, effectPending,
                   dbHistory, runRest>>

\* the summarize request settles
SummarizeAnswered(i) ==
    /\ ~effectPending /\ i \in 1..Len(runs) /\ runs[i].pc = "summarize"
    /\ \E reply \in SummarizeReplies :
         IF ~reply.ok
         THEN /\ Caught(i, reply.body)
              /\ UNCHANGED <<analysisSummary, conversationHistory>>
         ELSE /\ analysisSummary' = reply.body
              /\ conversationHistory' =
                    Arr(startMenuChat(runs[i].sent[1].allergies,
                                      runs[i].sent[1].preferences, runs[i].results))
              /\ IF runs[i].user # Null
                 THEN /\ runs' = [runs EXCEPT ![i] =
                                    Run("save", @.user,
                                        @.sent \o <<Call("addAnalysisToHistory",
                                                         @.sent[1].allergies,
                                                         @.sent[1].preferences)>>,
                                        @.results)]
                      /\ UNCHANGED isLoadingAnalysis
                 ELSE Finally(i)
              /\ UNCHANGED <<error, analysisResults>>
    /\ lastCall' = "none"
    /\ UNCHANGED <<currentUser, effectPending, dbHistory, runRest>>

\* addAnalysisToHistory settles
HistorySaved(i) ==
    /\ ~effectPending /\ i \in 1..Len(runs) /\ runs[i].pc = "save"
    /\ \/ /\ Len(dbHistory) < MaxRows
          /\ LET row == HistoryRow(dbHistory, runs[i].user.id, runs[i].results)
             IN /\ dbHistory' = Append(dbHistory, row)
                /\ currentUser' = WithNewEntry(runs[i].user, newHistoryEntry(row))
          /\ effectPending' = TRUE
          /\ Finally(i)
          /\ UNCHANGED <<error, analysisResults>>
       \/ /\ \E msg \in {InsertError, UnknownAnalysisError} : Caught(i, msg)
          /\ UNCHANGED <<currentUser, dbHistory, effectPending>>
    /\ lastCall' = "none"
    /\ UNCHANGED <<analysisSummary, conversationHistory, runRest>>

\* --- the client: chat, logout, restaurants and the history modal
chatVars == <<isChatLoading, chats>>
logoutVars == <<logoutPending, guestStore>>
nearbyVars == <<restaurants, isFindingRestaurants, locationError, mapsUp>>
modalVars == <<deletingId, modalError, deleteCalls>>
farVars == <<cfgVars, accVars, swVars, gwVars, dbProfiles>>
fieldVars == <<menuText, menuImage, isScannerOpen, menuContextForSuggestions>>
analysisVars == <<isLoadingAnalysis, error, analysisSummary, runs>>

\* handleSendChatMessage up to its await
handleSendChatMessage(message) ==
    /\ Truthy(conversationHistory)
    /\ isChatLoading' = TRUE
    /\ conversationHistory' = Arr(currentHistory(conversationHistory.v, message))
    /\ chats' = Append(chats,
                    continueChat(currentHistory(conversationHistory.v, message), message))

\* ChatInterface.handleSend: the form under the results is submitted
handleSend(input) ==
    /\ ~effectPending /\ ~isScannerOpen
    /\ Truthy(analysisResults) /\ Truthy(conversationHistory)
    /\ Len(conversationHistory.v) < MaxTurns
    /\ Trim(input.s) # <<>> /\ ~isChatLoading
    /\ handleSendChatMessage(Str(Trim(input.s)))
    /\ lastCall' = "none"
    /\ UNCHANGED <<currentUser, guestAllergies, menuUrl, analysisResults,
                   autoAnalysisTrigger, effectPending, analysisVars, fieldVars,
                   logoutVars, nearbyVars, modalVars, dbHistory, farVars, svcVars>>

\* continueChat settles: the reply, or the error's message, becomes a model turn
ChatAnswered(i) ==
    /\ ~effectPending /\ i \in 1..Len(chats)
    /\ \E reply \in ChatReplies :
         conversationHistory' =
            Appended(conversationHistory, ChatMessage("model", reply.body))
    /\ isChatLoading' = FALSE
    /\ chats' = RemoveAt(chats, i)
    /\ lastCall' = "none"
    /\ UNCHANGED <<currentUser, guestAllergies, menuUrl, analysisResults,
                   autoAnalysisTrigger, effectPending, analysisVars, fieldVars,
                   logoutVars, nearbyVars, modalVars, dbHistory, farVars, svcVars>>

\* handleLogout up to its await: the Logout entry of the profile menu
handleLogout ==
    /\ ~effectPending /\ ~isScannerOpen
    /\ currentUser # Null /\ ~logoutPending
    /\ guestStore' = SavedAllergies(currentUser)
    /\ logoutPending' = TRUE
    /\ lastCall' = "none"
    /\ UNCHANGED <<currentUser, guestAllergies, menuUrl, analysisResults,
                   conversationHistory, autoAnalysisTrigger, effectPending,
                   analysisVars, fieldVars, chatVars, nearbyVars, modalVars,
                   dbHistory, farVars, svcVars>>

\* auth.signOut settles: the SIGNED_OUT callback of onAuthStateChange, then the
\* rest of handleLogout; a rejected sign-out ends handleLogout at its await
LogoutAnswered ==
    /\ ~effectPending /\ logoutPending
    /\ \E ok \in BOOLEAN :
         IF ok
         THEN /\ svcAuth' = Null
              /\ currentUser' = Null
              /\ guestAllergies' = loadGuestAllergies(guestStore)
              /\ conversationHistory' = Null
              /\ analysisResults' = Null
              /\ effectPending' = TRUE
         ELSE UNCHANGED <<svcAuth, currentUser, guestAllergies, conversationHistory,
                          analysisResults, effectPending>>
    /\ logoutPending' = FALSE
    /\ lastCall' = "none"
    /\ UNCHANGED <<menuUrl, autoAnalysisTrigger, analysisVars, fieldVars, guestStore,
                   chatVars, nearbyVars, modalVars, dbHistory, farVars, svcPc,
                   svcProfile, svcRet, svcRaw, svcNet>>

\* handleFindNearby up to the position callbacks
handleFindNearby ==
    /\ ~effectPending /\ ~isScannerOpen /\ showInputSection
    /\ ~isFindingRestaurants
    /\ locationError' = Null /\ isFindingRestaurants' = TRUE /\ restaurants' = Null
    /\ lastCall' = "none"
    /\ UNCHANGED <<currentUser, guestAllergies, menuUrl, analysisResults,
                   conversationHistory, autoAnalysisTrigger, effectPending,
                   analysisVars, fieldVars, chatVars, logoutVars, modalVars, mapsUp,
                   dbHistory, farVars, svcVars>>

\* the position is refused, or it arrives and findNearbyRestaurants settles
FindNearbyAnswered ==
    /\ ~effectPending /\ isFindingRestaurants
    /\ \E located \in BOOLEAN, up \in MapsUps :
         IF ~located
         THEN /\ locationError' = GeolocationError
              /\ mapsUp' = Null
              /\ UNCHANGED restaurants
         ELSE /\ mapsUp' = up
              /\ IF findNearbyRestaurants(up).rejected
                 THEN /\ locationError' = findNearbyRestaurants(up).value
                      /\ UNCHANGED restaurants
                 ELSE /\ restaurants' = Arr(findNearbyRestaurants(up).value)
                      /\ UNCHANGED locationError
    /\ isFindingRestaurants' = FALSE
    /\ lastCall' = "none"
    /\ UNCHANGED <<currentUser, guestAllergies, menuUrl, analysisResults,
                   conversationHistory, autoAnalysisTrigger, effectPending,
                   analysisVars, fieldVars, chatVars, logoutVars, modalVars,
                   dbHistory, farVars, svcVars>>

\* handleSelectRestaurant: Select on a card of NearbyRestaurants
handleSelectRestaurant(restaurant) ==
    /\ ~effectPending /\ ~isScannerOpen
    /\ ~isFindingRestaurants /\ ~Truthy(locationError) /\ Truthy(restaurants)
    /\ \E i \in 1..Len(restaurants.v) : restaurants.v[i] = restaurant
    /\ IF Truthy(restaurant.website)
       THEN /\ menuUrl' = restaurant.website
            /\ restaurants' = Null
            /\ autoAnalysisTrigger' = 1
            /\ effectPending' = TRUE
       ELSE UNCHANGED <<menuUrl, restaurants, autoAnalysisTrigger, effectPending>>
    /\ lastCall' = "none"
    /\ UNCHANGED <<currentUser, guestAllergies, analysisResults, conversationHistory,
                   analysisVars, fieldVars, chatVars, logoutVars, modalVars,
                   isFindingRestaurants, locationError, mapsUp, dbHistory, farVars,
                   svcVars>>

\* handleDelete of the history modal up to its await, the confirmation accepted
handleDelete(idToDelete) ==
    /\ ~effectPending /\ ~isScannerOpen
    /\ currentUser # Null /\ ~Truthy(deletingId)
    /\ \E i \in 1..Len(currentUser.analysisHistory) :
          currentUser.analysisHistory[i].id = idToDelete
    /\ deletingId' = Num(idToDelete)
    /\ modalError' = Null
    /\ deleteCalls' = Append(deleteCalls, [id |-> idToDelete, user |-> currentUser])
    /\ lastCall' = "none"
    /\ UNCHANGED <<currentUser, guestAllergies, menuUrl, analysisResults,
                   conversationHistory, autoAnalysisTrigger, effectPending,
                   analysisVars, fieldVars, chatVars, logoutVars, nearbyVars,
                   dbHistory, farVars, svcVars>>

\* deleteAnalysisFromHistory settles: onHistoryUpdate with the history of the user
\* the modal was rendered with, or the modal's error
DeleteAnswered(i) ==
    /\ ~effectPending /\ i \in 1..Len(deleteCalls)
    /\ \E ok \in BOOLEAN :
         IF ok
         THEN /\ dbHistory' = DeleteRow(dbHistory, deleteCalls[i].id)
              /\ currentUser' =
                    handleHistoryUpdate(deleteCalls[i].user,
                        updatedHistory(deleteCalls[i].user, deleteCalls[i].id))
              /\ effectPending' = TRUE
              /\ UNCHANGED modalError
         ELSE /\ modalError' = DeleteError
              /\ UNCHANGED <<dbHistory, currentUser, effectPending>>
    /\ deletingId' = Null
    /\ deleteCalls' = RemoveAt(deleteCalls, i)
    /\ lastCall' = "none"
    /\ UNCHANGED <<guestAllergies, menuUrl, analysisResults, conversationHistory,
                   autoAnalysisTrigger, analysisVars, fieldVars, chatVars, logoutVars,
                   nearbyVars, farVars, svcVars>>

\* --- the client's requests at the gateway
\* fetchFromApi('api', payload) of a guest's only run reaches the gateway
analyzePayload(run) ==
    [allergies |-> run.sent[1].allergies, preferences |-> run.sent[1].preferences,
     menuText |-> menuText,
     imagePayload |-> IF Truthy(menuImage) THEN ImagePayload ELSE Null,
     menuUrl |-> menuUrl]
summarizePayload(run) ==
    [results |-> run.results, allergies |-> run.sent[1].allergies,
     preferences |-> run.sent[1].preferences]

GatewayServes(i) ==
    /\ gwFn = "none" /\ currentUser = Null /\ Len(runs) = 1 /\ i = 1
    /\ runs[i].pc \in {"analyze", "summarize"}
    /\ \E ai \in AiReplies :
         IF runs[i].pc = "analyze"
         THEN Serve("api", Post(Atom("analyze"), analyzePayload(runs[i])), UpAi(ai))
         ELSE Serve("api", Post(Atom("summarize"), summarizePayload(runs[i])), UpAi(ai))

\* ------------------------------------------------------- the specifications
InitGateway ==
    /\ gwKey \in KeyVals /\ gwFn = "none" /\ gwReq = Undef /\ gwUp = NoUp
    /\ gwResp = <<>> /\ gwAiCalls = <<>> /\ gwFetches = <<>> /\ gwRan = {}
    /\ cfgIdle /\ svcIdle /\ appIdle /\ sideIdle

NextGateway ==
    \/ GwNonPost \/ GwOdd \/ GwAnalyze \/ GwSummarize \/ GwAlternative \/ GwChat
    \/ GwPlaces \/ GwLegacyPlaces \/ GwRoute \/ GwDone

SpecGateway == InitGateway /\ [][NextGateway]_vars

InitConfig ==
    /\ cfgEnv \in [EnvNames -> OptStrings] /\ cfgResp = <<>>
    /\ gwIdle /\ svcIdle /\ appIdle /\ sideIdle

NextConfig == ConfigRequest

SpecConfig == InitConfig /\ [][NextConfig]_vars

\* Two callers of getUserProfile for one identity: login and the auth listener.
\* A history row belongs to a profile (foreign key), so a table without the
\* identity's profile holds no history of it.
StoredRow(i, result) ==
    [id |-> i, user_id |-> "u1", result |-> result,
     created_at |-> Stamp(Today.y, Today.m, i)]

InitProfile ==
    /\ svcAuth \in AuthUsers
    /\ dbProfiles \in {<<>>, <<ProProfile>>, <<[ProProfile EXCEPT !.id = "u2"]>>}
    /\ dbHistory \in {<<>>} \cup
          IF RowsOf(dbProfiles, "id", "u1") = <<>> THEN {}
          ELSE {<<StoredRow(1, Arr(<<PadThai>>))>>, <<StoredRow(1, Null)>>}
    /\ svcPc = [c \in Callers |-> "idle"]
    /\ svcProfile = [c \in Callers |-> Null]
    /\ svcRet = [c \in Callers |-> NoRet]
    /\ svcRaw = [c \in Callers |-> <<>>]
    /\ svcNet = FALSE
    /\ cfgIdle /\ gwIdle /\ appIdle /\ sideIdle

NextProfile ==
    \E c \in Callers : GupCall(c) \/ GupSelected(c) \/ GupInserted(c) \/ GupHistoryLoaded(c)

SpecProfile == InitProfile /\ [][NextProfile]_vars

\* The same two callers on the older service (authService.ts).
NextLegacyProfile ==
    \/ \E c \in Callers : LegacyGupCall(c)
    \/ \E c \in Callers : LegacyGupSelected(c)
    \/ \E c \in Callers : LegacyGupInserted(c)
    \/ \E c \in Callers : LegacyGupHistoryLoaded(c)

SpecLegacyProfile == InitProfile /\ [][NextLegacyProfile]_vars

\* Accounts from signup on: nobody is signed in and the tables are empty.
InitSignup ==
    /\ dbProfiles = <<>> /\ dbHistory = <<>> /\ svcQuiet
    /\ cfgIdle /\ gwIdle /\ appIdle /\ sideIdle

NextSignup ==
    \/ \E a \in Identities : Signup(a)
    \/ \E a \in Identities : Login(a)
    \/ ResetPassword
    \/ SessionEvent
    \/ \E c \in Callers : GupSelected(c)
    \/ \E c \in Callers : GupInserted(c)
    \/ \E c \in Callers : GupHistoryLoaded(c)

SpecSignup == InitSignup /\ [][NextSignup]_vars

\* The backend client module from page load on.
InitClient ==
    /\ authAccounts = {} /\ supabaseInstance = Null /\ clientRet = Null
    /\ cfgIdle /\ swIdle /\ gwIdle /\ svcIdle /\ appIdle

NextClient ==
    \/ \E url \in ClientArgs, anonKey \in ClientArgs : InitSupabaseCall(url, anonKey)
    \/ GetSupabaseClientCall

SpecClient == InitClient /\ [][NextClient]_vars

\* The service worker of one page: an empty cache, every server at version 0.
InitWorker ==
    /\ swCache = {} /\ swServer = [u \in SwUrls |-> 0]
    /\ swPending = <<>> /\ swLast = Null
    /\ cfgIdle /\ accIdle /\ gwIdle /\ svcIdle /\ appIdle

NextWorker ==
    \/ SwInstall
    \/ \E request \in SwRequests : SwFetch(request)
    \/ \E i \in 1..MaxPending : SwNetworkAnswered(i)

SpecWorker == InitWorker /\ [][NextWorker]_vars

\* One session that loads its user and records analyses.
InitHistory ==
    /\ svcAuth = [id |-> "u1", email |-> Email("ann", "example.com")]
    /\ dbProfiles \in {<<>>, <<ProProfile>>}
    /\ \E n \in 0..(IF dbProfiles = <<>> THEN 0 ELSE MaxRows) :
         \E rs \in [1..n -> StoredResults] :
            dbHistory = [i \in 1..n |-> StoredRow(i, rs[i])]
    /\ svcPc = [c \in Callers |-> "idle"]
    /\ svcProfile = [c \in Callers |-> Null]
    /\ svcRet = [c \in Callers |-> NoRet]
    /\ svcRaw = [c \in Callers |-> <<>>]
    /\ svcNet = FALSE
    /\ cfgIdle /\ gwIdle /\ appIdle /\ sideIdle

NextHistory ==
    \/ GupCall("login") \/ GupSelected("login") \/ GupInserted("login")
    \/ GupHistoryLoaded("login") \/ AddAnalysis("login")

SpecHistory == InitHistory /\ [][NextHistory]_vars

\* A signed-in user without Pro, at or under the quota, who may upgrade.
FreeProfiles == {p \in AppProfiles : p.is_pro = Bool(FALSE) /\ p.allergies = Str(<<"a">>)}
InitUpgrade ==
    /\ svcAuth = Ann
    /\ dbProfiles \in {<<>>} \cup {<<p>> : p \in FreeProfiles}
    /\ \E n \in 0..(IF dbProfiles = <<>> THEN 0 ELSE MaxRows) :
         dbHistory = [i \in 1..n |-> StoredRow(i, Arr(<<PadThai>>))]
    /\ svcPc = [c \in Callers |-> "idle"]
    /\ svcProfile = [c \in Callers |-> Null]
    /\ svcRet = [c \in Callers |-> NoRet]
    /\ svcRaw = [c \in Callers |-> <<>>]
    /\ svcNet = FALSE
    /\ cfgIdle /\ gwIdle /\ appIdle /\ sideIdle

NextUpgrade ==
    \/ GupCall("login") \/ GupSelected("login") \/ GupInserted("login")
    \/ GupHistoryLoaded("login")
    \/ UpgradeCall("login") \/ UpgradeUpdated("login")

SpecUpgrade == InitUpgrade /\ [][NextUpgrade]_vars

\* The client after initialisation: a guest, or a signed-in user as getUserProfile
\* returns it from the tables.
InitApp ==
    /\ \/ /\ currentUser = Null /\ dbProfiles = <<>> /\ dbHistory = <<>>
          /\ guestAllergies = Str(<<>>)
       \/ \E p \in AppProfiles, n \in 0..MaxRows :
            \E f \in Timelines(n) :
               /\ dbProfiles = <<p>> /\ dbHistory = RowsAt(f)
               /\ currentUser = User(p, Ann, DecodeHistory(SelectHistory(dbHistory, p.id)))
               /\ guestAllergies \in
                     IF Truthy(p.allergies) THEN {Str(<<>>)} ELSE {Str(<<>>), Str(<<"a">>)}
    /\ menuText = Str(<<>>) /\ menuImage = Null /\ menuUrl = Str(<<>>)
    /\ analysisResults = Null /\ isLoadingAnalysis = FALSE /\ error = Null
    /\ analysisSummary = Null /\ menuContextForSuggestions = Null
    /\ conversationHistory = Null /\ autoAnalysisTrigger = 0
    /\ isScannerOpen = FALSE /\ effectPending = FALSE /\ runs = <<>>
    /\ lastCall = "none"
    /\ sessIdle
    /\ cfgIdle /\ gwIdle /\ svcQuiet /\ sideIdle

NextApp ==
    \/ ClickAnalyze \/ AutoAnalysisEffect
    \/ \E t \in MenuTexts : SetMenuText(t)
    \/ \E u \in MenuUrls : SetMenuUrl(u)
    \/ \E f \in MenuImages : SetMenuImage(f)
    \/ \E a \in GuestAllergies : handleGuestAllergiesChange(a)
    \/ DismissError \/ OpenScanner \/ CloseScanner
    \/ \E d \in ScanData : handleScanSuccess(d)
    \/ \E i \in 1..Len(runs) : ImageProcessed(i)
    \/ \E i \in 1..Len(runs) : AnalyzeAnswered(i)
    \/ \E i \in 1..Len(runs) : SummarizeAnswered(i)
    \/ \E i \in 1..Len(runs) : HistorySaved(i)

SpecApp == InitApp /\ [][NextApp]_vars

\* A signed-in session: analyses started by the button or by a scanned code, the
\* chat under the results, the history modal and logout.
SessionProfiles ==
    [id : {"u1"}, username : {Atom("ann")}, allergies : {Str(<<"a">>)},
     preferences : {Str(<<"a">>)}, is_pro : {Bool(FALSE)},
     max_analyses_per_month : {Num(1), Num(MaxRows)}]
    \cup
    [id : {"u1"}, username : {Atom("ann")}, allergies : {Str(<<"a">>)},
     preferences : {Str(<<"a">>)}, is_pro : {Bool(TRUE)},
     max_analyses_per_month : {Null}]

InitSession ==
    /\ \E p \in SessionProfiles, n \in 0..1 :
          /\ dbProfiles = <<p>>
          /\ dbHistory = RowsAt([i \in 1..n |-> Len(Months)])
          /\ currentUser = User(p, Ann, DecodeHistory(SelectHistory(dbHistory, p.id)))
    /\ svcAuth = Ann
    /\ svcPc = [c \in Callers |-> "idle"] /\ svcProfile = [c \in Callers |-> Null]
    /\ svcRet = [c \in Callers |-> NoRet] /\ svcRaw = [c \in Callers |-> <<>>]
    /\ svcNet = FALSE
    /\ guestAllergies = Str(<<>>)
    /\ menuText = Str(<<>>) /\ menuImage = Null /\ menuUrl = Str(<<>>)
    /\ analysisResults = Null /\ isLoadingAnalysis = FALSE /\ error = Null
    /\ analysisSummary = Null /\ menuContextForSuggestions = Null
    /\ conversationHistory = Null /\ autoAnalysisTrigger = 0
    /\ isScannerOpen = FALSE /\ effectPending = FALSE /\ runs = <<>>
    /\ lastCall = "none"
    /\ sessIdle
    /\ cfgIdle /\ gwIdle /\ sideIdle

\* the steps of a run started by the Analyze button
ButtonRun ==
    \/ ClickAnalyze \/ AutoAnalysisEffect
    \/ SetMenuText(Str(<<"a">>))
    \/ \E i \in 1..Len(runs) : AnalyzeAnswered(i)
    \/ \E i \in 1..Len(runs) : SummarizeAnswered(i)
    \/ \E i \in 1..Len(runs) : HistorySaved(i)

\* analyses, the chat under their results, and logout
NextChat ==
    \/ ButtonRun
    \/ \E input \in ChatInputs : handleSend(input)
    \/ \E i \in 1..Len(chats) : ChatAnswered(i)
    \/ handleLogout \/ LogoutAnswered

SpecChat == InitSession /\ [][NextChat]_vars

\* analyses and the history modal
NextModal ==
    \/ ButtonRun
    \/ \E id \in 1..MaxRows : handleDelete(id)
    \/ \E i \in 1..Len(deleteCalls) : DeleteAnswered(i)

SpecModal == InitSession /\ [][NextModal]_vars

\* analyses started by a scanned code, and logout
NextSession ==
    \/ AutoAnalysisEffect
    \/ OpenScanner
    \/ handleScanSuccess(Str(<<"u">>))
    \/ \E i \in 1..Len(runs) : AnalyzeAnswered(i)
    \/ \E i \in 1..Len(runs) : SummarizeAnswered(i)
    \/ \E i \in 1..Len(runs) : HistorySaved(i)
    \/ handleLogout \/ LogoutAnswered

SpecSession == InitSession /\ [][NextSession]_vars

\* The restaurants nearby: the search of the places service and the selection of
\* a restaurant, which starts an analysis of its website.
NextNearby ==
    \/ handleFindNearby \/ FindNearbyAnswered
    \/ \E r \in {placeDetails(id, MapsUp(TRUE, NoSearch, {}, w)).value :
                    id \in 1..PlacesCap, w \in {{}, {1}}} : handleSelectRestaurant(r)
    \/ AutoAnalysisEffect
    \/ \E i \in 1..Len(runs) : AnalyzeAnswered(i)

SpecNearby == InitSession /\ [][NextNearby]_vars

\* The client and the gateway side by side: the gateway serves the requests of a
\* guest's run, and suggestion and chat requests while the page is at rest.
NextRetry ==
    \/ gwFn = "none" /\ NextApp
    \/ \E i \in 1..Len(runs) : GatewayServes(i)
    \/ gwFn # "none" /\ \E i \in 1..Len(runs) : AnalyzeAnswered(i)
    \/ gwFn # "none" /\ \E i \in 1..Len(runs) : SummarizeAnswered(i)
    \/ appIdle /\ GwAlternative
    \/ appIdle /\ GwChat
    \/ GwDone

SpecRetry == InitApp /\ [][NextRetry]_vars

\* ============================================================== the claims
\* --- what the claims say about a served request, stated apart from the handlers
GatewayPost(type) ==
    /\ gwFn \in GatewayFns
    /\ gwReq.method = "POST" /\ gwReq.parses
    /\ gwReq.body \notin {Undef, Null}
    /\ Get(gwReq.body, "type") = Atom(type)
    /\ Get(gwReq.body, "data") # Undef

ReqData == gwReq.body.data

\* absent, empty or whitespace only
IsBlank(v) == v \in {Undef, Null} \/ \A i \in 1..Len(v.s) : v.s[i] = " "

LacksMenuSource(d) ==
    IsBlank(d.menuUrl) /\ d.imagePayload \in {Undef, Null} /\ IsBlank(d.menuText)

\* C1: an analyze request whose data carries no menu source (URL and text absent,
\* empty or whitespace only, image absent) fails with the input error
\* "No menu content provided for analysis." and makes no call to the AI API.
C1_NoSourceIsInputError ==
    (GatewayPost("analyze") /\ LacksMenuSource(ReqData))
        => /\ gwResp = <<Response(500, [error |-> NoMenuError])>>
           /\ gwAiCalls = <<>>
           /\ gwFetches = <<>>

C1_Witness ==
    /\ GatewayPost("analyze") /\ gwFn = "api"
    /\ ReqData.menuUrl = Str(<<" ", " ">>)
    /\ ReqData.imagePayload = Null
    /\ ReqData.menuText = Str(<<" ">>)
    /\ gwResp # <<>> /\ gwResp[1].status = 500

\* C2: with several menu sources supplied the handler uses exactly one, the URL if
\* it is not blank, else the image if present, else the text; the image is attached
\* only when it is the chosen source, and the chosen source's prompt is the first
\* part of the one model request.
C2_SourcePriority ==
    (GatewayPost("analyze") /\ ~LacksMenuSource(ReqData))
        => LET d == ReqData
               chosen == IF ~IsBlank(d.menuUrl) THEN "url"
                         ELSE IF d.imagePayload \notin {Undef, Null} THEN "image"
                         ELSE "text"
               arg == CASE chosen = "url" -> d.menuUrl
                        [] chosen = "image" -> Undef
                        [] chosen = "text" -> d.menuText
           IN /\ Len(gwAiCalls) = 1
              /\ LET parts == gwAiCalls[1].parts
                 IN /\ Len(parts) = (IF chosen = "image" THEN 2 ELSE 1)
                    /\ parts[1] = [text |-> [prompt |-> chosen, arg |-> arg]]
                    /\ \A i \in 1..Len(parts) :
                           "inlineData" \in DOMAIN parts[i]
                               => /\ chosen = "image"
                                  /\ parts[i].inlineData =
                                         [data |-> d.imagePayload.data,
                                          mimeType |-> d.imagePayload.mimeType]

C2_Witness ==
    /\ GatewayPost("analyze") /\ gwFn = "api"
    /\ ~IsBlank(ReqData.menuUrl)
    /\ ReqData.imagePayload = ImagePayload
    /\ ~IsBlank(ReqData.menuText)
    /\ Len(gwAiCalls) = 1
    /\ gwAiCalls[1].parts = <<[text |-> [prompt |-> "url", arg |-> ReqData.menuUrl]]>>

ChatWithHistory ==
    /\ GatewayPost("chat")
    /\ ReqData.history.k = "array"
    /\ Len(ReqData.history.v) > 0

SeededWithAllButLast ==
    LET h == ReqData.history.v
    IN /\ Len(gwAiCalls) = 1
       /\ gwAiCalls[1].api = "chat"
       /\ gwAiCalls[1].message = ReqData.message
       /\ Len(gwAiCalls[1].history) = Len(h) - 1
       /\ \A i \in 1..(Len(h) - 1) :
              gwAiCalls[1].history[i] =
                  [role |-> h[i].role, parts |-> <<[text |-> h[i].content]>>]

\* C3: for every chat request with a non-empty history the remote conversation is
\* seeded with all turns but the last, in order, and message is the one new turn;
\* the last turn of history is never duplicated into the seed.
C3_ChatSeedDropsLastTurn == ChatWithHistory => SeededWithAllButLast

\* The five-handler gateway alone does seed the conversation that way.
ChatSeedOfCurrentGateway == (ChatWithHistory /\ gwFn = "api") => SeededWithAllButLast

PlacesSearchOk ==
    /\ GatewayPost("places") /\ gwFn = "api"
    /\ gwFetches # <<>>
    /\ ~gwUp.search.threw /\ gwUp.search.status = "OK" /\ gwUp.search.results # Undef

\* C4: when the nearby search is OK with R results and the detail lookup fails for
\* a set F of the first min(R, 12) places, the places handler answers 200 with
\* exactly min(R, 12) - |F| restaurants, the surviving places in search order.
C4_PlacesDropsFailedDetails ==
    PlacesSearchOk
        => LET found == gwUp.search.results.v
               n == IF Len(found) < PlacesCap THEN Len(found) ELSE PlacesCap
               F == {i \in 1..n : found[i] \in gwUp.failed}
           IN /\ Len(gwResp) = 1
              /\ gwResp[1].status = 200
              /\ gwResp[1].body.k = "array"
              /\ LET list == gwResp[1].body.v
                 IN /\ Len(list) = n - Cardinality(F)
                    /\ \A i \in 1..Len(list) :
                           \E j \in (1..n) \ F : list[i].place_id = found[j]
                    /\ \A i, j \in 1..Len(list) :
                           i < j => list[i].place_id < list[j].place_id

C4_Witness ==
    /\ PlacesSearchOk
    /\ Len(gwUp.search.results.v) > PlacesCap
    /\ Cardinality(gwUp.failed \cap (1..PlacesCap)) = 2
    /\ gwUp.failKind = "throw"
    /\ gwResp[1].status = 200
    /\ Len(gwResp[1].body.v) = PlacesCap - 2

\* --- what C5 calls a valid stored result, stated apart from the type guard
ListOfStrings(v) == v.k = "array" /\ \A i \in 1..Len(v.v) : v.v[i].k = "string"
ValidItem(x) ==
    /\ x.k = "object"
    /\ {"itemName", "safetyLevel", "reasoning", "identifiedAllergens"} \subseteq DOMAIN x
    /\ x.itemName.k = "string"
    /\ x.safetyLevel \in {Atom("safe"), Atom("caution"), Atom("unsafe")}
    /\ x.reasoning.k = "string"
    /\ ListOfStrings(x.identifiedAllergens)
ValidStored(v) == v.k = "array" /\ \A i \in 1..Len(v.v) : ValidItem(v.v[i])
IsDataError(r) ==
    /\ r.k = "array" /\ Len(r.v) = 1
    /\ Get(r.v[1], "itemName") = Atom("Data Error")
    /\ Get(r.v[1], "safetyLevel") = Atom("unsafe")
    /\ Get(r.v[1], "identifiedAllergens") = Arr(<<>>)
HoldsUser(c) == svcPc[c] = "done" /\ svcRet[c].ok
StoredIds == {dbHistory[i].id : i \in 1..Len(dbHistory)}

\* C5: in the history a caller holds after getUserProfile (and after its own
\* addAnalysisToHistory calls), every stored row appears once and in the stored
\* order; a row whose stored result is a valid list of items carries exactly that
\* list, and any other row carries exactly one 'Data Error' item that is unsafe
\* and names no allergen.  Unless a request failed in transport, no row of the
\* table is missing from the held history.
C5_HistoryDecodeRoundTrip ==
    \A c \in Callers :
        HoldsUser(c) =>
            LET held == svcRet[c].user.analysisHistory
                raw == svcRaw[c]
            IN /\ Len(held) = Len(raw)
               /\ \A i \in 1..Len(raw) :
                     /\ \E j \in 1..Len(dbHistory) : dbHistory[j] = raw[i]
                     /\ held[i].id = raw[i].id
                     /\ held[i].created_at = raw[i].created_at
                     /\ IF ValidStored(raw[i].result)
                        THEN held[i].result = raw[i].result
                        ELSE IsDataError(held[i].result)
               /\ \A i, j \in 1..Len(raw) : i < j => raw[i].id > raw[j].id
               /\ (~svcNet /\ RowsOf(dbProfiles, "id", svcAuth.id) # <<>>) =>
                      {raw[i].id : i \in 1..Len(raw)} = StoredIds

\* A loaded history of two rows: a valid list of two items, kept as stored, and
\* an invalid result, replaced by the synthetic item.
C5_Witness ==
    /\ HoldsUser("login") /\ ~svcNet
    /\ Len(svcRaw["login"]) = 2
    /\ ValidStored(svcRaw["login"][1].result)
    /\ Len(svcRaw["login"][1].result.v) = 2
    /\ svcRet["login"].user.analysisHistory[1].result = svcRaw["login"][1].result
    /\ ~ValidStored(svcRaw["login"][2].result)
    /\ IsDataError(svcRet["login"].user.analysisHistory[2].result)

BothFinished == \A c \in Callers : svcPc[c] \in {"done", "failed"}
ProfileRows == RowsOf(dbProfiles, "id", svcAuth.id)

\* C6: once both interleaved getUserProfile calls for one identity have ended,
\* and no request failed in transport, the table holds exactly one profile row
\* for that identity.
C6_OneProfileRow == (BothFinished /\ ~svcNet) => Len(ProfileRows) = 1

\* Both calls found no row and raced to insert: one created the default profile,
\* the other was rejected and threw.
C6_Witness ==
    /\ BothFinished /\ ~svcNet
    /\ \E c, d \in Callers :
          /\ svcRet[c] = Thrown(CreateProfileError)
          /\ svcRet[d].ok /\ svcRet[d].user.analysisHistory = <<>>
    /\ ProfileRows = <<newProfileData(svcAuth)>>

\* --- C7: a signed-in user who is not Pro and has used up a numeric monthly quota
AtQuota ==
    /\ currentUser # Null
    /\ currentUser.is_pro # Bool(TRUE)
    /\ currentUser.max_analyses_per_month.k = "number"
    /\ Cardinality({i \in 1..Len(currentUser.analysisHistory) :
                       currentUser.analysisHistory[i].created_at.y = Today.y
                       /\ currentUser.analysisHistory[i].created_at.m = Today.m})
          >= currentUser.max_analyses_per_month.n
AllergiesListed ==
    \E i \in 1..Len(currentAllergies.s) : currentAllergies.s[i] # " "
MenuProvided ==
    \/ \E i \in 1..Len(menuText.s) : menuText.s[i] # " "
    \/ menuImage # Null
    \/ \E i \in 1..Len(menuUrl.s) : menuUrl.s[i] # " "
AnalyzeCalled == lastCall' # "none"
NothingStarted ==
    /\ runs' = runs
    /\ UNCHANGED <<isLoadingAnalysis, analysisResults, analysisSummary, conversationHistory>>
LimitReached ==
    /\ error'.k = "string"
    /\ "maxAnalyses" \in DOMAIN error'
    /\ error'.maxAnalyses = currentUser.max_analyses_per_month.n

\* C7 as stated: every call of handleAnalyze by a user at quota sets the
\* limit-reached message and starts nothing.
C7_QuotaAlwaysLimitMessage ==
    [][(AtQuota /\ AnalyzeCalled) => (LimitReached /\ NothingStarted)]_vars

\* C7 amended: every call of handleAnalyze by a user at quota returns without
\* sending a request and without touching the loading flag, results, summary or
\* conversation; it sets the limit-reached message when allergies are listed and
\* a menu source is given, and the message of the failed input check otherwise.
C7_QuotaBlocksAnalysis ==
    [][(AtQuota /\ AnalyzeCalled) =>
          /\ NothingStarted
          /\ lastCall' = "returned"
          /\ IF ~AllergiesListed THEN error' = AllergiesError
             ELSE IF ~MenuProvided THEN error' = MenuError
             ELSE LimitReached]_vars

\* A user at quota, with results of an earlier analysis on screen, has just been
\* refused with the limit-reached message.
C7_Witness ==
    /\ lastCall = "returned" /\ AtQuota /\ AllergiesListed /\ MenuProvided
    /\ error = LimitError(currentUser.max_analyses_per_month.n)
    /\ currentUser.max_analyses_per_month.n > 0
    /\ analysisResults # Null /\ analysisSummary # Null /\ conversationHistory # Null
    /\ ~isLoadingAnalysis /\ runs = <<>>

\* C8: every request to the gateway gets exactly one response: 405 for a method
\* other than POST, with no handler run; 200 with the handler's result when the
\* handler selected by type returns; 500 with {error: message} when reading the
\* body, dispatching on an unknown type or the handler throws.  type selects at
\* most one of the five handlers.
C8_OneResponsePerRequest ==
    gwFn = "api"
        => /\ Len(gwResp) = 1
           /\ Cardinality(gwRan) <= 1
           /\ gwRan \subseteq Handlers
           /\ IF gwReq.method # "POST"
              THEN /\ gwResp[1].status = 405
                   /\ gwRan = {} /\ gwAiCalls = <<>> /\ gwFetches = <<>>
              ELSE IF \/ ~gwReq.parses
                      \/ gwReq.body \in {Undef, Null}
                      \/ \A h \in Handlers : Get(gwReq.body, "type") # Atom(h)
              THEN /\ gwResp[1].status = 500
                   /\ DOMAIN gwResp[1].body = {"error"}
                   /\ gwResp[1].body.error # ""
                   /\ gwRan = {} /\ gwAiCalls = <<>> /\ gwFetches = <<>>
              ELSE LET h == gwReq.body.type.a
                       out == RunHandler(h, Get(gwReq.body, "data"), gwKey, gwUp)
                   IN /\ gwRan = {h}
                      /\ gwResp[1] = IF out.threw
                                     THEN Response(500, [error |-> out.msg])
                                     ELSE Response(200, out.value)

C8_Witness ==
    /\ gwFn = "api" /\ gwRan = {"chat"}
    /\ Len(gwAiCalls) = 1
    /\ gwResp = <<Response(500, [error |-> UpstreamError])>>

Malformed ==
    /\ gwFn \in GatewayFns
    /\ gwReq.method = "POST"
    /\ \/ ~gwReq.parses
       \/ gwReq.body \in {Undef, Null}
       \/ Get(gwReq.body, "type") = Undef
       \/ Get(gwReq.body, "data") = Undef

\* C9 as stated: a malformed gateway request (a body that cannot be read as a
\* {type, data} envelope, or one with a required field missing) is answered 400.
C9_MalformedIs400 == Malformed => gwResp[1].status = 400

\* C9 amended: a malformed gateway request is answered 500 with {error}, the status
\* handler failures get, and the gateway never answers 400; among the server
\* functions only the placeholder analyze route answers 400, exactly for a readable
\* body without menuText or inputType.
C9_MalformedIs500 ==
    /\ Malformed
         => /\ Len(gwResp) = 1
            /\ gwResp[1].status = 500
            /\ DOMAIN gwResp[1].body = {"error"}
    /\ gwFn \in GatewayFns => gwResp[1].status # 400
    /\ gwFn = "route"
         => (gwResp[1].status = 400
               <=> /\ gwReq.parses /\ gwReq.body # Null
                   /\ \/ gwReq.body.menuText \in {Undef, Str(<<>>)}
                      \/ gwReq.body.inputType \in {Undef, Atom("")})

C9_Witness ==
    /\ Malformed /\ gwFn = "api"
    /\ ~gwReq.parses
    /\ gwResp = <<Response(500, [error |-> SyntaxErrorMsg])>>

AllEnvSet == \A n \in EnvNames : cfgEnv[n] # Undef /\ cfgEnv[n].s # <<>>

\* C10: the config function answers 200 with exactly the three environment values
\* if and only if all three variables are set and non-empty; otherwise 500 with
\* {error} and none of the values.
C10_ConfigAllOrNothing ==
    cfgResp # <<>>
        => /\ Len(cfgResp) = 1
           /\ cfgResp[1] =
                 IF AllEnvSet
                 THEN Response(200, [googleMapsApiKey |-> cfgEnv["GOOGLE_MAPS_API_KEY"],
                                     supabaseUrl |-> cfgEnv["SUPABASE_URL"],
                                     supabaseAnonKey |-> cfgEnv["SUPABASE_ANON_KEY"]])
                 ELSE Response(500, [error |-> ConfigError])

C10_Witness ==
    /\ cfgResp # <<>>
    /\ cfgEnv["GOOGLE_MAPS_API_KEY"] = Str(<<"a">>)
    /\ cfgEnv["SUPABASE_URL"] = Str(<<"a", " ">>)
    /\ cfgEnv["SUPABASE_ANON_KEY"] = Str(<<>>)
    /\ cfgResp[1].status = 500
\* A getUserProfile call returns from its healing branch / from its found branch.
Healed(c) == svcPc[c] \in {"insert", "linsert"} /\ svcPc'[c] = "done"
Found(c) == svcPc[c] \in {"history", "lhistory"} /\ svcPc'[c] = "done"
SameProfile(u, row) ==
    /\ u.id = row.id /\ u.username = row.username /\ u.allergies = row.allergies
    /\ u.preferences = row.preferences /\ u.is_pro = row.is_pro
    /\ u.max_analyses_per_month = row.max_analyses_per_month
LocalPartOrNewUser(email) ==
    IF email = Undef \/ email.local = "" THEN Atom("New User") ELSE Atom(email.local)

\* C11: a getUserProfile call that found no row (PGRST116) and returns has
\* inserted exactly one row, holding the default allergy list 'Peanuts, Shellfish,
\* Gluten', is_pro = false, max_analyses_per_month = 5 and the email's local part
\* (or 'New User') as username, and returns that profile with an empty history;
\* a call that found a row inserts nothing and returns the stored row's fields.
C11_SelfHealingDefaults ==
    [][\A c \in Callers :
         /\ Healed(c) =>
              /\ Len(dbProfiles') = Len(dbProfiles) + 1
              /\ SubSeq(dbProfiles', 1, Len(dbProfiles)) = dbProfiles
              /\ LET row == dbProfiles'[Len(dbProfiles')]
                     u == svcRet'[c].user
                 IN /\ row.id = svcAuth.id
                    /\ row.username = LocalPartOrNewUser(svcAuth.email)
                    /\ row.allergies = Str(<<"Peanuts,", " ", "Shellfish,", " ", "Gluten">>)
                    /\ row.is_pro = Bool(FALSE)
                    /\ row.max_analyses_per_month = Num(5)
                    /\ svcRet'[c].ok /\ SameProfile(u, row)
                    /\ u.analysisHistory = <<>>
         /\ Found(c) =>
              /\ dbProfiles' = dbProfiles
              /\ svcRet'[c].ok
              /\ SameProfile(svcRet'[c].user, RowsOf(dbProfiles, "id", svcAuth.id)[1])
      ]_vars

HasProfile(rows, id) == RowsOf(rows, "id", id) # <<>>

\* C12: signup inserts no profile row; a step that adds a profile row is the
\* insert of a getUserProfile call made for the authenticated identity, and the
\* row is that identity's; once a login (or any profile fetch) has returned a
\* user, a profile row of that user exists.
C12_ProfileCreatedOnFirstFetch ==
    [][/\ authAccounts' # authAccounts => dbProfiles' = dbProfiles
       /\ dbProfiles' # dbProfiles =>
            /\ svcAuth \in authAccounts /\ svcAuth' = svcAuth
            /\ \E c \in Callers : svcPc[c] = "insert" /\ svcPc'[c] = "done"
            /\ Len(dbProfiles') = Len(dbProfiles) + 1
            /\ SubSeq(dbProfiles', 1, Len(dbProfiles)) = dbProfiles
            /\ dbProfiles'[Len(dbProfiles')].id = svcAuth.id
       /\ \A c \in Callers :
            svcRet'[c].ok => HasProfile(dbProfiles', svcRet'[c].user.id)
      ]_vars

\* a first login after signup has returned the profile it created
C12_Witness ==
    /\ svcRet["login"].ok /\ svcPc["login"] = "done"
    /\ svcRet["login"].user.analysisHistory = <<>>
    /\ svcAuth \in authAccounts
    /\ HasProfile(dbProfiles, svcAuth.id)

\* the requests the worker is to leave to the network
NonGet(request) == request.method # "GET"
ToGoogle(request) ==
    \E h \in {<<"maps", ".", "googleapis", ".", "com">>, <<"fonts", ".", "google", ".", "com">>} :
        request.url.hostname = h
ToFunctions(request) ==
    request.url.pathname = <<"/", ".netlify", "/", "functions", "/", "api">>
MustPassThrough(request) == NonGet(request) \/ ToGoogle(request) \/ ToFunctions(request)

\* C13: a request that is not a GET, or goes to a googleapis.com or google.com
\* host, or to a path under /.netlify/functions/, is never in the cache, never
\* waits on the worker's own fetch and is never answered from the cache: the
\* browser sends it to the network.
C13_ApiRequestsPassThrough ==
    /\ \A e \in swCache : ~MustPassThrough(e.request)
    /\ \A i \in 1..Len(swPending) : ~MustPassThrough(swPending[i])
    /\ swLast # Null /\ MustPassThrough(swLast.request) => swLast.by = "network"

\* a POST to the functions path went to the network while the shell is cached
C13_Witness ==
    /\ swLast # Null /\ ToFunctions(swLast.request) /\ NonGet(swLast.request)
    /\ swLast.by = "network" /\ swLast.response # Undef
    /\ swCache # {}

ToBackend(request) == request.url.hostname = BackendHost

\* C14: no response to a request addressed to the backend host is in the cache,
\* and no request to the backend host is answered from the cache.
C14_BackendNeverCached ==
    /\ \A e \in swCache : ~ToBackend(e.request)
    /\ swLast # Null /\ ToBackend(swLast.request) => swLast.by # "cache"

\* The steps of the auto-analysis effect. A trigger event is a scan that set
\* autoAnalysisTrigger; the effect is made due when one of its dependencies
\* changed; it runs when it calls handleAnalyze.
TriggerEvent == isScannerOpen /\ ~isScannerOpen' /\ effectPending' /\ autoAnalysisTrigger' > 0
EffectMadeDue == ~effectPending /\ effectPending' /\ autoAnalysisTrigger' > 0
EffectRuns == effectPending /\ ~effectPending' /\ lastCall' # "none"

\* C15: the auto-analysis is edge-triggered: the effect is made due to call
\* handleAnalyze by a trigger event only (a later change of currentUser, the
\* allergies, the preferences or a menu input starts no run), and the effect
\* that a trigger made due calls handleAnalyze once.
C15_AutoAnalysisEdgeTriggered ==
    [][/\ EffectMadeDue => TriggerEvent
       /\ (effectPending /\ ~effectPending' /\ autoAnalysisTrigger > 0) => EffectRuns
      ]_vars

\* a run of handleAnalyze ends in its catch block in this step
RunFailed ==
    /\ Len(runs') = Len(runs) - 1
    /\ error' # Null /\ analysisResults' = Null /\ ~isLoadingAnalysis'
    /\ lastCall' = "none"
CallNames(run) == [k \in 1..Len(run.sent) |-> run.sent[k].name]
NoRepeat(s) == \A j, k \in 1..Len(s) : j # k => s[j] # s[k]

IsUpgraded(row) == row.is_pro = Bool(TRUE) /\ row.max_analyses_per_month = Null
UpgradeSucceeds(c) == svcPc[c] = "update" /\ svcPc'[c] = "select"
RowOf(rows, id) == RowsOf(rows, "id", id)[1]

GatedPreferences(user) ==
    IF user # Null /\ user.is_pro = Bool(TRUE) /\ user.preferences \notin {Null, Str(<<>>)}
    THEN user.preferences ELSE Str(<<>>)

\* C18: every call a run of handleAnalyze makes (analyzeMenu,
\* summarizeSafeOptions, addAnalysisToHistory) and the priming turn of the chat
\* carry empty preferences for a guest or a user without Pro, whatever the
\* profile stores, and the stored preferences for a Pro user.
C18_PreferencesGatedByTier ==
    /\ \A i \in 1..Len(runs) : \A k \in 1..Len(runs[i].sent) :
           runs[i].sent[k].preferences = GatedPreferences(runs[i].user)
    /\ conversationHistory # Null =>
           conversationHistory.v[1].content.preferences = GatedPreferences(currentUser)

\* a user without Pro whose profile stores preferences is saving an analysis:
\* all three calls and the priming turn went out with empty preferences
C18_Witness ==
    /\ currentUser # Null /\ currentUser.is_pro = Bool(FALSE)
    /\ currentUser.preferences = Str(<<"a">>)
    /\ conversationHistory # Null
    /\ \E i \in 1..Len(runs) :
          /\ runs[i].pc = "save" /\ Len(runs[i].sent) = 3
          /\ runs[i].sent[3].name = "addAnalysisToHistory"
          /\ runs[i].sent[3].preferences = Str(<<>>)

EmptyArg(v) == v \in {Undef, Null, Str(<<>>)}
Called(name) == clientRet' # Null /\ clientRet'.call = name

\* C19: the backend client is initialised once. getSupabaseClient throws while
\* no initSupabase has succeeded and returns the held instance afterwards;
\* initSupabase with an empty url or key throws and leaves the module as it was;
\* initSupabase with both makes the instance if there is none; and an instance,
\* once made, is the same in every later state.
C19_ClientInitialisedOnce ==
    [][/\ Called("getSupabaseClient") =>
            /\ supabaseInstance' = supabaseInstance
            /\ clientRet'.threw <=> supabaseInstance = Null
            /\ ~clientRet'.threw => clientRet'.value = supabaseInstance
       /\ Called("initSupabase") =>
            IF EmptyArg(clientRet'.url) \/ EmptyArg(clientRet'.anonKey)
            THEN clientRet'.threw /\ supabaseInstance' = supabaseInstance
            ELSE ~clientRet'.threw /\ supabaseInstance' # Null
       /\ supabaseInstance # Null => supabaseInstance' = supabaseInstance
      ]_vars

\* a second initSupabase with other arguments has returned and the first
\* instance is still the one held
C19_Witness ==
    /\ clientRet # Null /\ clientRet.call = "initSupabase" /\ ~clientRet.threw
    /\ supabaseInstance # Null
    /\ supabaseInstance.url # clientRet.url /\ supabaseInstance.anonKey # clientRet.anonKey

\* the model answered an analyze request that names a menu source
ModelAnsweredAnalyze == GatewayPost("analyze") /\ gwFn = "api" /\ ~LacksMenuSource(ReqData) /\ ~gwUp.ai.threw

\* C20: when the model's answer to an analyze request has no content (its text
\* is absent, empty or whitespace only) the gateway answers 200 with the empty
\* list; an answer holding the JSON of a result list is answered 200 with that
\* list.
C20_EmptyAnswerIsEmptyList ==
    ModelAnsweredAnalyze =>
        IF IsBlank(gwUp.ai.text)
        THEN gwResp = <<Response(200, Arr(<<>>))>>
        ELSE Trim(gwUp.ai.text.s) = <<"J">> =>
                gwResp = <<Response(200, Arr(<<PadThai>>))>>

\* --- C29
\* login rejected by getUserProfile's own insert, with no call left unanswered
LoginLostTheInsert ==
    /\ ~svcNet
    /\ svcPc["login"] = "failed"
    /\ svcRet["login"] = Thrown(CreateProfileError)

\* C29: on the first login of an identity without a profile row, with every call
\* answered by the backend, login does not fail: the profile fetch of login and the
\* one of the session listener, in any interleaving, leave login resolved with the
\* profile.
C29_FirstLoginResolves == ~LoginLostTheInsert

\* --- C24
\* C24: the interface is in one state at a time: isLoadingAnalysis is never true
\* while analysisResults is non-null (analyzing and results-shown never hold
\* together).
C24_AnalyzingExcludesResults == ~(isLoadingAnalysis /\ Truthy(analysisResults))

\* --- C22
\* a run leaves the list of runs in flight in this step
RunEnds == Len(runs') < Len(runs)

\* the run that ends has completed: an empty result list, a guest's summary, or a
\* stored history row
RunCompletes ==
    \E i \in 1..Len(runs) :
       /\ runs' = RemoveAt(runs, i)
       /\ \/ runs[i].pc = "analyze" /\ analysisResults' = Arr(<<>>)
          \/ /\ runs[i].pc = "summarize" /\ runs[i].user = Null
             /\ Truthy(analysisSummary') /\ analysisResults' = runs[i].results
          \/ runs[i].pc = "save" /\ Len(dbHistory') > Len(dbHistory)

\* the messages a failing step of a run can carry
FailureMessages ==
    {ImageError, LengthOfNullError, InsertError, UnknownAnalysisError}
    \cup {r.body : r \in {x \in AnalyzeReplies \cup SummarizeReplies : ~x.ok}}

ChatSent == Len(chats') = Len(chats) + 1
SentChat == chats'[Len(chats')]

\* C21: every chat request the client sends carries a history whose last element
\* is {role: 'user', content: message} for the message sent with it, and whose
\* preceding elements are the conversation in state when the send started, the
\* priming turns included.
C21_HistoryEndsWithMessage ==
    [][ ChatSent =>
          /\ Truthy(conversationHistory)
          /\ Len(SentChat.history) = Len(conversationHistory.v) + 1
          /\ SentChat.history[Len(SentChat.history)] =
                ChatMessage("user", SentChat.message)
          /\ SubSeq(SentChat.history, 1, Len(conversationHistory.v)) =
                conversationHistory.v ]_vars

\* a request is pending whose history holds the two priming turns and the message
C21_Witness ==
    /\ Len(chats) = 1
    /\ Len(chats[1].history) = 3
    /\ SubSeq(chats[1].history, 1, 2) =
          startMenuChat(Str(<<"a">>), Str(<<>>), Arr(ModelResults))
    /\ chats[1].message = Str(<<"a">>)

\* --- C27
\* the conversation begins with the priming user turn and alternates user and
\* model turns
IsPrimingTurn(m) ==
    /\ m.role = "user"
    /\ DOMAIN m.content = DOMAIN startMenuChat(Null, Null, Null)[1].content
    /\ m.content.text = startMenuChat(Null, Null, Null)[1].content.text

Alternates(h) ==
    /\ h # <<>>
    /\ IsPrimingTurn(h[1])
    /\ \A i \in 1..Len(h) : h[i].role = IF i % 2 = 1 THEN "user" ELSE "model"

AtMostOneChatPending == Len(chats) <= 1

\* C27: in every reachable state a non-null conversation history begins with the
\* priming user turn and strictly alternates user and model turns, and at most one
\* chat request is pending.
C27_ConversationAlternates ==
    /\ Truthy(conversationHistory) => Alternates(conversationHistory.v)
    /\ AtMostOneChatPending

\* --- C25
\* C25: at most one analysis run is in flight at any time, and isLoadingAnalysis
\* is true exactly while a run is in flight.
C25_OneRunInFlight ==
    /\ Len(runs) <= 1
    /\ isLoadingAnalysis <=> runs # <<>>

\* --- C26
\* the SIGNED_OUT event has been handled and no sign-in has followed it
SignedOut == svcAuth = Null

\* C26: once a SIGNED_OUT event has been handled, currentUser stays null until the
\* next sign-in event: nothing that was in flight at sign-out writes a user back.
C26_SignedOutStaysNull == SignedOut => currentUser = Null

\* --- C28
\* the analyses of this month that have completed with a stored result: the rows
\* dated this month, deleted ones included
CompletedThisMonth(rows) ==
    Cardinality({i \in 1..Len(rows) :
                    /\ rows[i].created_at.y = Today.y
                    /\ rows[i].created_at.m = Today.m})

\* a run of a user without Pro, whose quota is known, completes in this step
QuotaRunCompletes(i) ==
    /\ runs[i].pc = "save" /\ runs' = RemoveAt(runs, i)
    /\ Len(dbHistory') = Len(dbHistory) + 1
    /\ ~Truthy(runs[i].user.is_pro)
    /\ runs[i].user.max_analyses_per_month # Null

Quiescent == runs = <<>> /\ deleteCalls = <<>>
LocalIds == {currentUser.analysisHistory[i].id : i \in 1..Len(currentUser.analysisHistory)}
StoredIdsOf(user_id) ==
    {dbHistory[i].id : i \in {j \in 1..Len(dbHistory) : dbHistory[j].user_id = user_id}}

\* C30: whenever no request is in flight, the entry ids in
\* currentUser.analysisHistory are pairwise distinct and equal the ids of that
\* user's rows in analysis_history.
C30_LocalHistoryMatchesStore ==
    (Quiescent /\ currentUser # Null) =>
        /\ Cardinality(LocalIds) = Len(currentUser.analysisHistory)
        /\ LocalIds = StoredIdsOf(currentUser.id)

\* the restaurants of the places whose detail lookup succeeded, in the order
\* of the search
Succeeded(up) ==
    LET ids == SliceCap(up.search.results.v)
        settled == [i \in 1..Len(ids) |-> placeDetails(ids[i], up)]
        kept == [i \in 1..Len(ids) |->
                    IF settled[i].rejected THEN Null ELSE settled[i].value]
    IN FilterNonNull(kept)
SearchedWithLostDetails ==
    /\ ~isFindingRestaurants /\ mapsUp # Null /\ mapsUp.loaded
    /\ mapsUp.search.status = "OK" /\ Truthy(mapsUp.search.results)
    /\ \E id \in mapsUp.failed :
         \E i \in 1..Len(SliceCap(mapsUp.search.results.v)) :
            SliceCap(mapsUp.search.results.v)[i] = id

\* C23: when the detail lookup fails for some of the (at most 12) places of a
\* search, findNearbyRestaurants resolves with the restaurants whose lookups
\* succeeded and does not reject: the list shows them and no error is set.
C23_FailedLookupsAreDropped ==
    SearchedWithLostDetails =>
        /\ ~findNearbyRestaurants(mapsUp).rejected
        /\ locationError = Null
        /\ restaurants \in {Arr(Succeeded(mapsUp)), Null}
====
